---- MODULE Spec2Model ----
(***************************************************************************)
(* Tranquility language front end: the token classifier (src/src/lexer.ts) *)
(* and the recursive-descent parser with its scope tracker                 *)
(* (src/src/parser.ts, class Parser from line 485, class Scope from 398).  *)
(*                                                                         *)
(* A source text is a sequence of one-character strings.  A token is a     *)
(* record [type, value, line, column]; type is the name of the TokenType   *)
(* whose regex matched, which is what the parser and the diagnostics       *)
(* compare token.type against.                                             *)
(***************************************************************************)
EXTENDS Integers, Sequences, FiniteSets, TLC

\* ------------------------------------------------------------------ bounds
MaxLen == 3          \* longest source text given to tokenize
MaxLines == 3        \* most lines of a function body after the prelude
MaxArgs == 4         \* most arguments written in a call
MaxFunctions == 3    \* most function declarations of a program
MaxReports == 3      \* most calls of createTokenDiagnostic on one sink
MaxLoopLines == 5    \* most lines of a body of nested loops

\* --------------------------------------------------------- character sets
NL == "\n"
TAB == "\t"
DQ == "\""
SQ == "'"
BSL == "\\"

Lower == {"a","b","c","d","e","f","g","h","i","j","k","l","m",
          "n","o","p","q","r","s","t","u","v","w","x","y","z"}
Upper == {"A","B","C","D","E","F","G","H","I","J","K","L","M",
          "N","O","P","Q","R","S","T","U","V","W","X","Y","Z"}
Digit == {"0","1","2","3","4","5","6","7","8","9"}

\* \w of a JavaScript regular expression
IsWordChar(c) == c \in Lower \cup Upper \cup Digit \cup {"_"}
IsDigit(c) == c \in Digit
IsNewline(c) == c = NL
IsBlank(c) == c \in {" ", TAB}
NotNewline(c) == c # NL
NotSpace(c) == c \notin {NL, TAB, " "}

\* The characters source texts are drawn from.
Alphabet == {"i", "f", "1", " ", NL, "#", "<", "=", "{", "}", "~", SQ, DQ}

\* Length of the longest prefix of s whose characters all satisfy P (X+, X*).
RunLen(s, P(_)) ==
    CHOOSE n \in 0..Len(s) :
        /\ \A i \in 1..n : P(s[i])
        /\ (n = Len(s) \/ ~P(s[n + 1]))

Tail2(s) == SubSeq(s, 2, Len(s))

StartsWith(s, w) == Len(s) >= Len(w) /\ SubSeq(s, 1, Len(w)) = w

\* ------------------------------------------------------------ TokenType
\* The reserved words of the KEYWORD alternation, in its order.
Keywords == << <<"e","l","s","e">>, <<"f","u","n">>, <<"i","f">>,
               <<"l","o","o","p">>, <<"r","e","t","u","r","n">>,
               <<"u","n","t","i","l">>, <<"v","a","r">> >>

\* /^(else|fun|if|loop|return|until|var)\b/ : the word must end at a word
\* boundary, i.e. at the end of the text or before a non-word character.
\* Mutant: the word boundary \b left out of the regex.
KeywordAtNoBoundary(s, w) == StartsWith(s, w)

\* Mutant: \s written for \b, a keyword must be followed by white space.
KeywordAtBeforeSpace(s, w) ==
    /\ StartsWith(s, w)
    /\ Len(s) > Len(w) /\ s[Len(w) + 1] \in {" ", TAB, NL}

KeywordAt(s, w) ==
    /\ StartsWith(s, w)
    /\ (Len(s) = Len(w) \/ ~IsWordChar(s[Len(w) + 1]))

KeywordLen(s) ==
    IF \E k \in 1..Len(Keywords) : KeywordAt(s, Keywords[k])
    THEN Len(Keywords[CHOOSE k \in 1..Len(Keywords) :
                 /\ KeywordAt(s, Keywords[k])
                 /\ \A j \in 1..(k - 1) : ~KeywordAt(s, Keywords[j])])
    ELSE 0

\* /^(==|!=|<=?|>=?)/
ComparisonLen(s) ==
    IF StartsWith(s, <<"=", "=">>) \/ StartsWith(s, <<"!", "=">>) THEN 2
    ELSE IF s[1] \in {"<", ">"}
         THEN (IF Len(s) >= 2 /\ s[2] = "=" THEN 2 ELSE 1)
         ELSE 0

\* /^(<<|>>)/
BitwiseShiftLen(s) ==
    IF StartsWith(s, <<"<", "<">>) \/ StartsWith(s, <<">", ">">>) THEN 2 ELSE 0

\* /^"([^"]|\\")*"/ : [^"] is tried first at every repetition and also
\* matches a backslash, so the repetition runs to the first later quote,
\* where both alternatives fail and the closing quote matches; the \\"
\* alternative is never part of the match found.  No later quote: no match.
NotDQ(c) == c # DQ
StringLen(s) ==
    IF s[1] = DQ /\ (\E j \in 2..Len(s) : s[j] = DQ)
    THEN RunLen(Tail2(s), NotDQ) + 2
    ELSE 0

\* /^'([^']|\\')'/
CharacterLen(s) ==
    IF s[1] # SQ THEN 0
    ELSE IF Len(s) >= 3 /\ s[2] # SQ /\ s[3] = SQ THEN 3
    ELSE IF Len(s) >= 4 /\ s[2] = BSL /\ s[3] = SQ /\ s[4] = SQ THEN 4
    ELSE 0

\* /^[a-zA-Z_]\w*/
IdentifierLen(s) ==
    IF s[1] \in Lower \cup Upper \cup {"_"}
    THEN 1 + RunLen(Tail2(s), IsWordChar) ELSE 0

\* /^#[^\n]*/
CommentLen(s) == IF s[1] = "#" THEN 1 + RunLen(Tail2(s), NotNewline) ELSE 0

\* Mutant: the fallback written /^\w+/, which leaves characters unmatched.
UnrecognizedLenWordOnly(s) == RunLen(s, IsWordChar)

\* /^[^\n\t ]+/
UnrecognizedLen(s) == RunLen(s, NotSpace)

OneOf(s, S) == IF s[1] \in S THEN 1 ELSE 0

\* tokenTypes: the static members of TokenType in declaration order, each
\* with the name its constructor was given.
tokenTypes == <<
    [id |-> "KEYWORD",            name |-> "keyword"],
    [id |-> "MINUS",              name |-> "minus"],
    [id |-> "ADDITIVE",           name |-> "additive"],
    [id |-> "COMPARISON",         name |-> "comparison"],
    [id |-> "MULTIPLICATIVE",     name |-> "multiplicative"],
    [id |-> "BITWiSE_COMPARISON", name |-> "bitwise comparison"],
    [id |-> "XOR",                name |-> "xor"],
    [id |-> "BITWISE_SHIFT",      name |-> "bitwise shift"],
    [id |-> "NEWLINE",            name |-> "newline"],
    [id |-> "WHITESPACE",         name |-> "whitespace"],
    [id |-> "STRING",             name |-> "string"],
    [id |-> "INTEGER",            name |-> "integer"],
    [id |-> "LEFT_BRACE",         name |-> "left brace"],
    [id |-> "RIGHT_BRACE",        name |-> "left brace"],
    [id |-> "LEFT_PARENTHESES",   name |-> "left parentheses"],
    [id |-> "RIGHT_PARENTHESES",  name |-> "right parentheses"],
    [id |-> "COLON",              name |-> "colon"],
    [id |-> "COMMA",              name |-> "comma"],
    [id |-> "COMMENT",            name |-> "comment"],
    [id |-> "CHARACTER",          name |-> "character"],
    [id |-> "DOT",                name |-> "dot"],
    [id |-> "IDENTIFIER",         name |-> "identifier"],
    [id |-> "UNRECOGNIZED",       name |-> "unrecognized"] >>

\* tokenType.regex.exec(remainingCode): length of match[0], 0 for no match
\* (every regex of the table consumes at least one character when it matches).
RegexLen(id, s) ==
    CASE id = "KEYWORD"            -> KeywordLen(s)
      [] id = "MINUS"              -> OneOf(s, {"-"})
      [] id = "ADDITIVE"           -> OneOf(s, {"+", "-"})
      [] id = "COMPARISON"         -> ComparisonLen(s)
      [] id = "MULTIPLICATIVE"     -> OneOf(s, {"*", "/", "%"})
      [] id = "BITWiSE_COMPARISON" -> OneOf(s, {"&", "|"})
      [] id = "XOR"                -> OneOf(s, {"^"})
      [] id = "BITWISE_SHIFT"      -> BitwiseShiftLen(s)
      [] id = "NEWLINE"            -> RunLen(s, IsNewline)
      [] id = "WHITESPACE"         -> RunLen(s, IsBlank)
      [] id = "STRING"             -> StringLen(s)
      [] id = "INTEGER"            -> RunLen(s, IsDigit)
      [] id = "LEFT_BRACE"         -> OneOf(s, {"{"})
      [] id = "RIGHT_BRACE"        -> OneOf(s, {"}"})
      [] id = "LEFT_PARENTHESES"   -> OneOf(s, {"("})
      [] id = "RIGHT_PARENTHESES"  -> OneOf(s, {")"})
      [] id = "COLON"              -> OneOf(s, {":"})
      [] id = "COMMA"              -> OneOf(s, {","})
      [] id = "COMMENT"            -> CommentLen(s)
      [] id = "CHARACTER"          -> CharacterLen(s)
      [] id = "DOT"                -> OneOf(s, {"."})
      [] id = "IDENTIFIER"         -> IdentifierLen(s)
      [] id = "UNRECOGNIZED"       -> UnrecognizedLen(s)

\* ------------------------------------------------------------- tokenize
\* The locals of tokenize as one record; matched is the history of the
\* texts matched so far (emitted and discarded), kept for the properties.
LexStart(code) ==
    [remainingCode |-> code, tokens |-> <<>>, currentIndex |-> 0,
     lineNumber |-> 0, matched |-> <<>>, pc |-> "loop"]

\* Index of the first token type whose regex matches, 0 if none does.
FirstMatch(s) ==
    IF \E i \in 1..Len(tokenTypes) : RegexLen(tokenTypes[i].id, s) > 0
    THEN CHOOSE i \in 1..Len(tokenTypes) :
            /\ RegexLen(tokenTypes[i].id, s) > 0
            /\ \A j \in 1..(i - 1) : RegexLen(tokenTypes[j].id, s) = 0
    ELSE 0

\* One iteration of the while loop of tokenize.
LexIteration(st) ==
    LET s == st.remainingCode
        i == FirstMatch(s)
    IN  IF i = 0 THEN [st EXCEPT !.pc = "threw"]
        ELSE
        LET tokenType == tokenTypes[i]
            n == RegexLen(tokenType.id, s)
            matchedBit == SubSeq(s, 1, n)
            emitted == tokenType.name # "whitespace" /\ tokenType.name # "comment"
        IN  [remainingCode |-> SubSeq(s, n + 1, Len(s)),
             tokens |-> IF emitted
                        THEN Append(st.tokens,
                                [type |-> tokenType.name, value |-> matchedBit,
                                 line |-> st.lineNumber, column |-> st.currentIndex])
                        ELSE st.tokens,
             currentIndex |-> IF tokenType.name = "newline" THEN 0
                              ELSE st.currentIndex + n,
             lineNumber |-> IF tokenType.name = "newline" THEN st.lineNumber + 1
                            ELSE st.lineNumber,
             matched |-> Append(st.matched, [text |-> matchedBit, emitted |-> emitted]),
             pc |-> "loop"]

\* tokenize(code) run to its end, as a function of the text.
RECURSIVE LexRun(_)
LexRun(st) ==
    IF st.pc # "loop" THEN st
    ELSE IF st.remainingCode = <<>> THEN [st EXCEPT !.pc = "returned"]
    ELSE LexRun(LexIteration(st))

tokenize(code) == LexRun(LexStart(code))

\* ======================================================================
\* Parser (src/src/parser.ts from line 368)
\* ======================================================================

\* Words of the language as texts.
W_var == <<"v","a","r">>
W_fun == <<"f","u","n">>
W_if == <<"i","f">>
W_else == <<"e","l","s","e">>
W_until == <<"u","n","t","i","l">>
W_loop == <<"l","o","o","p">>
W_return == <<"r","e","t","u","r","n">>
W_init == <<"i","n","i","t">>
W_random == <<"r","a","n","d","o","m">>
W_makeimg == <<"m","a","k","e","i","m","g">>
W_alloc == <<"a","l","l","o","c">>
W_maketable == <<"m","a","k","e","t","a","b","l","e">>
W_setcell == <<"s","e","t","c","e","l","l">>

\* builtInFunctions (builtins): name and parameterCount of every entry, in
\* the order they are registered.
builtInFunctions == <<
    [name |-> W_alloc, parameterCount |-> 2],
    [name |-> <<"b","u","t","t","o","n">>, parameterCount |-> 2],
    [name |-> <<"b","u","t","t","o","n","l","a","b","e","l">>, parameterCount |-> 2],
    [name |-> <<"f","r","e","e">>, parameterCount |-> 1],
    [name |-> <<"h","t","m","l">>, parameterCount |-> 1],
    [name |-> <<"i","2","s">>, parameterCount |-> 1],
    [name |-> <<"i","p","r","i","n","t">>, parameterCount |-> 1],
    [name |-> <<"i","r","e","a","d">>, parameterCount |-> 1],
    [name |-> W_makeimg, parameterCount |-> 0],
    [name |-> <<"m","a","k","e","l","a","b","e","l">>, parameterCount |-> 1],
    [name |-> W_maketable, parameterCount |-> 3],
    [name |-> W_random, parameterCount |-> 1],
    [name |-> W_setcell, parameterCount |-> 4],
    [name |-> <<"s","e","t","c","e","l","l","c","o","l","o","r">>, parameterCount |-> 4],
    [name |-> <<"s","e","t","i","m","g">>, parameterCount |-> 2],
    [name |-> <<"s","e","t","l","a","b","e","l">>, parameterCount |-> 2],
    [name |-> <<"s","p","r","i","n","t">>, parameterCount |-> 1],
    [name |-> <<"s","r","e","a","d">>, parameterCount |-> 2],
    [name |-> <<"s","t","o","p","t","i","m","e","r">>, parameterCount |-> 1],
    [name |-> <<"t","i","m","e","r">>, parameterCount |-> 2],
    [name |-> W_init, parameterCount |-> 0] >>

\* function operandsMatch(a, b)
\* Mutant: every scope is created with the type of the global scope's
\* children, function.
ScopeFunction(type) ==
    [type |-> IF type = "global" THEN type ELSE "function",
     hasUntil |-> FALSE,
     functions |-> IF type = "global"
                   THEN [k \in 1..Len(builtInFunctions) |->
                           [name |-> builtInFunctions[k].name,
                            argumentCount |-> builtInFunctions[k].parameterCount]]
                   ELSE <<>>,
     variables |-> <<>>]

\* Mutant: address and integer do not match each other.
operandsMatchStrict(a, b) == a = b \/ a = "any" \/ b = "any"

operandsMatch(a, b) ==
    \/ a = b
    \/ a = "any" \/ b = "any"
    \/ (a = "address" /\ b = "integer")
    \/ (a = "integer" /\ b = "address")

\* ---------------------------------------------------------------- Scope
\* new Scope(type, parent): the parent is the scope below it on the chain.
Scope(type) ==
    [type |-> type,
     hasUntil |-> FALSE,
     functions |-> IF type = "global"
                   THEN [k \in 1..Len(builtInFunctions) |->
                           [name |-> builtInFunctions[k].name,
                            argumentCount |-> builtInFunctions[k].parameterCount]]
                   ELSE <<>>,
     variables |-> <<>>]

\* The scope chain is the sequence of scopes from the global scope to the
\* current scope; scopes[Len(scopes)] is currentScope and the scope before
\* it is its parent.  An empty chain is currentScope === undefined.
RECURSIVE allFunctions(_)
allFunctions(scopes) ==
    IF scopes = <<>> THEN <<>>
    ELSE scopes[Len(scopes)].functions \o allFunctions(SubSeq(scopes, 1, Len(scopes) - 1))

RECURSIVE allVariables(_)
allVariables(scopes) ==
    IF scopes = <<>> THEN <<>>
    ELSE scopes[Len(scopes)].variables \o allVariables(SubSeq(scopes, 1, Len(scopes) - 1))

\* Mutant: only the variables of the current scope are searched.
hasVariableInCurrentScope(scopes, name) ==
    \E k \in 1..Len(scopes[Len(scopes)].variables) :
        scopes[Len(scopes)].variables[k].name = name

hasVariableWithName(scopes, name) ==
    \E k \in 1..Len(allVariables(scopes)) : allVariables(scopes)[k].name = name

hasFunctionWithName(scopes, name) ==
    \E k \in 1..Len(allFunctions(scopes)) : allFunctions(scopes)[k].name = name

\* allFunctions.find(func => func.name === name): the first one on the chain
FindFunction(scopes, name) ==
    LET all == allFunctions(scopes)
    IN  all[CHOOSE k \in 1..Len(all) :
              all[k].name = name /\ \A j \in 1..(k - 1) : all[j].name # name]

\* --------------------------------------------------------- parser state
\* tokens, scopes (currentScope and its ancestors), diagnostics and the
\* hasDiagnostic marks are the parser's mutable state; err is the exception
\* in flight, if any; log is the history of the checks made, kept for the
\* properties.
NoErr == [kind |-> "none"]
NoType == ""
NoValue == <<>>
NoNode == [type |-> "undefined"]

ParserStart(tokens) ==
    [tokens |-> tokens, scopes |-> <<Scope("global")>>, diagnostics |-> <<>>,
     flagged |-> {}, err |-> NoErr, log |-> <<>>]

Failed(st) == st.err.kind # "none"

\* throw new TokenError(token, message)
Throw(st, token, message) ==
    [st EXCEPT !.err = [kind |-> "TokenError", token |-> token,
                        message |-> message, severity |-> "Error"]]

\* A property read on undefined (tokens[0] of an empty list, tokens[1] of a
\* list of one, currentScope.parent of no scope): a TypeError, not a TokenError.
TypeErr(st) == [st EXCEPT !.err = [kind |-> "TypeError"]]

Logged(st, event) == [st EXCEPT !.log = Append(@, event)]

R(st, node) == [st |-> st, node |-> node]

\* const x = e; body -- Bind([x \in {e} |-> body]) is body with x naming the
\* value of e, which is computed once.
Bind(f) == f[CHOOSE x \in DOMAIN f : TRUE]

\* Parser.nextIs, on a non-empty token list
nextIs(st, expectedType, expectedValue) ==
    IF expectedValue = NoValue THEN st.tokens[1].type = expectedType
    ELSE st.tokens[1].type = expectedType /\ st.tokens[1].value = expectedValue

\* Parser.nextNextIs, on a list of at least two tokens
nextNextIs(st, expectedType, expectedValue) ==
    IF expectedValue = NoValue THEN st.tokens[2].type = expectedType
    ELSE st.tokens[2].type = expectedType /\ st.tokens[2].value = expectedValue

\* The state in which a read of tokens[0] is attempted.
Peek(st) == IF Failed(st) THEN st ELSE IF st.tokens = <<>> THEN TypeErr(st) ELSE st
\* The state in which a read of tokens[1] is attempted.
Peek2(st) == IF Failed(st) THEN st ELSE IF Len(st.tokens) < 2 THEN TypeErr(st) ELSE st

\* The types of the scopes of a chain, the global scope first.
ScopeTypes(scopes) == [k \in 1..Len(scopes) |-> scopes[k].type]

\* Parser.next(expectedType, expectedValue, scopeType): the state after the
\* call; the token it returns is Head(st.tokens).
next(st, expectedType, expectedValue, scopeType) ==
    IF Failed(st) THEN st
    ELSE IF st.tokens = <<>> THEN TypeErr(st)
    ELSE
    LET t == Head(st.tokens) IN
    IF expectedType # NoType /\ t.type # expectedType
    THEN Throw(st, t, [text |-> "Expected type", expected |-> expectedType, found |-> t.type])
    ELSE IF expectedValue # NoValue /\ t.value # expectedValue
    THEN Throw(st, t, [text |-> "Expected", expected |-> expectedValue, found |-> t.value])
    ELSE IF t.type = "right brace"
    THEN (IF st.scopes = <<>> THEN TypeErr(st)
          ELSE [st EXCEPT !.scopes = SubSeq(@, 1, Len(@) - 1), !.tokens = Tail(@),
                          !.log = Append(@, [kind |-> "brace", token |-> t,
                                             chain |-> ScopeTypes(SubSeq(st.scopes, 1,
                                                           Len(st.scopes) - 1))])])
    ELSE IF t.type = "left brace"
    THEN [st EXCEPT !.scopes = Append(@, Scope(scopeType)), !.tokens = Tail(@),
                    !.log = Append(@, [kind |-> "brace", token |-> t,
                                       chain |-> ScopeTypes(Append(st.scopes,
                                                                   Scope(scopeType)))])]
    ELSE [st EXCEPT !.tokens = Tail(@)]

\* createTokenDiagnostic / tokenNonError (src/src/diagnostics.ts)
createTokenDiagnostic(st, token, message, severity) ==
    IF token \in st.flagged THEN st
    ELSE [st EXCEPT
            !.diagnostics = Append(@,
                [startLine |-> token.line, startColumn |-> token.column,
                 endLine |-> token.line, endColumn |-> token.column + Len(token.value),
                 message |-> message, severity |-> severity]),
            !.flagged = @ \cup {token}]

\* Mutant: the report is dropped.
tokenNonErrorDropped(st, token, message, severity) == st

tokenNonError(st, token, message, severity) ==
    createTokenDiagnostic(st, token, message, severity)

\* ---------------------------------------------------------- parseLiteral
\* next.value.replace(/\\/g, "\\\\"): every backslash doubled
RECURSIVE DoubleBackslashes(_)
DoubleBackslashes(v) ==
    IF v = <<>> THEN <<>>
    ELSE (IF Head(v) = BSL THEN <<BSL, BSL>> ELSE <<Head(v)>>) \o DoubleBackslashes(Tail(v))

\* /[^\\]\\(\.)/ : a character that is not a backslash, a backslash, a dot
EscapeMatches(val) ==
    \E i \in 1..(Len(val) - 2) : val[i] # BSL /\ val[i + 1] = BSL /\ val[i + 2] = "."

parseLiteral(st) ==
    LET tok == Head(st.tokens) IN
    Bind([s1 \in {next(st, NoType, NoValue, "undefined")} |->
        IF Failed(s1) THEN R(s1, NoNode)
        ELSE IF tok.type = "string" /\ EscapeMatches(DoubleBackslashes(tok.value))
        \* the captured character is the dot, which is none of b, n, r, t, \
        THEN R(Throw(s1, tok, [text |-> "Invalid escape sequence", char |-> "."]), NoNode)
        ELSE R(s1, [type |-> tok.type, value |-> tok.value, token |-> tok])])

\* ------------------------------------------------------------ expressions
\* The six binary levels, outermost first: the token type of the operator,
\* the returnType of the node built, whether the level reports unsafe
\* pointer arithmetic, and the function of the source that implements it.
Levels == <<
    [operator |-> "xor",                returnType |-> "integer", warns |-> TRUE,
     verb |-> "XOR",             method |-> "parseBinaryExpression"],
    [operator |-> "bitwise comparison", returnType |-> "boolean", warns |-> TRUE,
     verb |-> "bitwise compare", method |-> "parseBitwiseComparisonExpression"],
    [operator |-> "comparison",         returnType |-> "boolean", warns |-> FALSE,
     verb |-> "compare",         method |-> "parseComparisonExpression"],
    [operator |-> "bitwise shift",      returnType |-> "integer", warns |-> TRUE,
     verb |-> "shift",           method |-> "parseBitwiseShiftExpression"],
    [operator |-> "additive",           returnType |-> "integer", warns |-> TRUE,
     verb |-> "add",             method |-> "parseAdditiveExpression"],
    [operator |-> "multiplicative",     returnType |-> "integer", warns |-> TRUE,
     verb |-> "multiply",        method |-> "parseMultiplicativeExpression"] >>

RECURSIVE parseLevel(_, _)
RECURSIVE levelLoop(_, _, _)
RECURSIVE parseUnaryExpression(_)
RECURSIVE parseExpressionList(_)

\* The operand of a level: the next level, or a unary expression at the last.
parseOperand(st, lvl) ==
    IF lvl = Len(Levels) THEN parseUnaryExpression(st) ELSE parseLevel(st, lvl + 1)

\* while (this.nextIs(<operator>)) { ... } of a level, node being the left
\* operand built so far.
levelLoop(st, node, lvl) ==
    LET p == Peek(st) IN
    IF Failed(p) THEN R(p, NoNode)
    ELSE IF ~nextIs(st, Levels[lvl].operator, NoValue) THEN R(st, node)
    ELSE
    LET operation == Head(st.tokens) IN
    Bind([rr \in {parseOperand(parseLiteral(st).st, lvl)} |->
    Bind([event \in {[kind |-> "binary", token |-> operation, level |-> lvl,
                      left |-> node.returnType,
                      right |-> IF Failed(rr.st) THEN NoType
                                ELSE rr.node.returnType]} |->
        IF Failed(rr.st) THEN R(rr.st, NoNode)
        ELSE IF ~operandsMatch(node.returnType, rr.node.returnType)
        THEN R(Logged(Throw(rr.st, operation,
                            [text |-> "Cannot", verb |-> Levels[lvl].verb,
                             left |-> node.returnType,
                             right |-> rr.node.returnType]),
                      event @@ [outcome |-> "mismatch"]), NoNode)
        ELSE levelLoop(Logged(IF Levels[lvl].warns
                                 /\ (node.returnType = "address"
                                     \/ rr.node.returnType = "address")
                              THEN tokenNonError(rr.st, operation,
                                                 "Unsafe pointer arithmetic", "Warning")
                              ELSE rr.st,
                              event @@ [outcome |-> "accepted"]),
                       [type |-> "binary expression",
                        returnType |-> Levels[lvl].returnType,
                        left |-> node, operation |-> operation, right |-> rr.node],
                       lvl)])])

parseLevel(st, lvl) ==
    Bind([r \in {parseOperand(st, lvl)} |->
        IF Failed(r.st) THEN R(r.st, NoNode) ELSE levelLoop(r.st, r.node, lvl)])

parseBinaryExpression(st) == parseLevel(st, 1)
parseBitwiseComparisonExpression(st) == parseLevel(st, 2)
parseComparisonExpression(st) == parseLevel(st, 3)
parseBitwiseShiftExpression(st) == parseLevel(st, 4)
parseAdditiveExpression(st) == parseLevel(st, 5)
parseMultiplicativeExpression(st) == parseLevel(st, 6)

parseExpression(st) == parseBinaryExpression(st)

\* parseExpressionList: one expression and, after a comma, one more.
parseExpressionList(st) ==
    Bind([e1 \in {parseExpression(st)} |->
        IF Failed(Peek(e1.st)) THEN R(Peek(e1.st), NoNode)
        ELSE IF nextIs(e1.st, "comma", NoValue)
        THEN Bind([e2 \in {parseExpression(next(e1.st, "comma", NoValue, "undefined"))} |->
                 IF Failed(e2.st) THEN R(e2.st, NoNode)
                 ELSE R(e2.st, [type |-> "expression list", expression |-> e1.node,
                                next |-> e2.node])])
        ELSE R(e1.st, [type |-> "expression list", expression |-> e1.node,
                       next |-> NoNode])])

\* let arg = node.arguments; while (arg) { argumentCount++; arg = arg.next }
CountArguments(arguments) ==
    IF arguments = NoNode THEN 0
    ELSE IF arguments.next = NoNode THEN 1 ELSE 2

\* The function call branch of parseUnaryExpression.
parseFunctionCall(st) ==
    LET nameToken == Head(st.tokens) IN
    Bind([s2 \in {next(parseLiteral(st).st, "left parentheses", NoValue, "undefined")} |->
    Bind([args \in {IF Failed(Peek(s2)) THEN R(Peek(s2), NoNode)
                    ELSE IF ~nextIs(s2, "right parentheses", NoValue)
                    THEN parseExpressionList(s2) ELSE R(s2, NoNode)} |->
    Bind([s3 \in {args.st} |->
    Bind([argumentCount \in {CountArguments(args.node)} |->
    Bind([event \in {[kind |-> "call", token |-> nameToken,
                      received |-> argumentCount]} |->
        IF Failed(s3) THEN R(s3, NoNode)
        ELSE IF s3.scopes = <<>> THEN R(TypeErr(s3), NoNode)
        ELSE IF ~hasFunctionWithName(s3.scopes, nameToken.value)
        THEN R(Logged(Throw(s3, nameToken,
                            [text |-> "Function is undefined", name |-> nameToken.value]),
                      event @@ [outcome |-> "undefined"]), NoNode)
        ELSE
        Bind([scopeFunction \in {FindFunction(s3.scopes, nameToken.value)} |->
        IF scopeFunction.argumentCount # argumentCount
        THEN R(Logged(Throw(s3, nameToken,
                            [text |-> "Incorrect number of arguments",
                             expected |-> scopeFunction.argumentCount,
                             received |-> argumentCount]),
                      event @@ [outcome |-> "arity"]), NoNode)
        ELSE
        Bind([s4 \in {next(s3, "right parentheses", NoValue, "undefined")} |->
        IF Failed(s4) THEN R(Logged(s4, event @@ [outcome |-> "other"]), NoNode)
        ELSE R(Logged(s4, event @@ [outcome |-> "accepted"]),
               [type |-> "function call", returnType |-> "any",
                left |-> [type |-> "function call", name |-> nameToken.value,
                          arguments |-> args.node],
                operation |-> nameToken])])])])])])])])

parseUnaryExpression(st) ==
    IF Failed(Peek(st)) THEN R(Peek(st), NoNode)
    \* Function call
    ELSE IF nextIs(st, "identifier", NoValue) /\ Failed(Peek2(st))
    THEN R(Peek2(st), NoNode)
    ELSE IF nextIs(st, "identifier", NoValue) /\ nextNextIs(st, "left parentheses", NoValue)
    THEN parseFunctionCall(st)
    \* Literal expression
    ELSE IF \/ nextIs(st, "integer", NoValue)
            \/ nextIs(st, "character", NoValue)
            \/ nextIs(st, "string", NoValue)
    THEN Bind([literal \in {parseLiteral(st)} |->
         IF Failed(literal.st) THEN R(literal.st, NoNode)
         ELSE R(literal.st, [type |-> literal.node.type, value |-> literal.node.value,
                             token |-> literal.node.token,
                             returnType |-> literal.node.token.type,
                             left |-> literal.node, operation |-> literal.node.token])])
    \* Literal identifier
    ELSE IF nextIs(st, "identifier", NoValue)
    THEN Bind([identifier \in {parseLiteral(st)} |->
         Bind([s1 \in {identifier.st} |->
         Bind([event \in {[kind |-> "reference", token |-> Head(st.tokens)]} |->
             IF Failed(s1) THEN R(s1, NoNode)
             ELSE IF s1.scopes = <<>> THEN R(TypeErr(s1), NoNode)
             ELSE IF ~hasVariableWithName(s1.scopes, identifier.node.value)
             THEN R(Logged(Throw(s1, identifier.node.token,
                                 [text |-> "Variable is not defined",
                                  name |-> identifier.node.value]),
                           event @@ [outcome |-> "undefined"]), NoNode)
             ELSE R(Logged(s1, event @@ [outcome |-> "accepted"]),
                    [type |-> identifier.node.type, value |-> identifier.node.value,
                     token |-> identifier.node.token, returnType |-> "address",
                     left |-> identifier.node, operation |-> identifier.node.token])
         ])])])
    \* Parenthesized expression
    ELSE IF nextIs(st, "left parentheses", NoValue)
    THEN Bind([s1 \in {next(st, "left parentheses", NoValue, "undefined")} |->
         Bind([inner \in {IF Failed(Peek(s1)) THEN R(Peek(s1), NoNode)
                          ELSE IF ~nextIs(s1, "right parentheses", NoValue)
                          THEN parseUnaryExpression(s1) ELSE R(s1, NoNode)} |->
         Bind([s2 \in {next(inner.st, "right parentheses", NoValue, "undefined")} |->
             IF Failed(s2) THEN R(s2, NoNode)
             \* node.expression!.returnType of an empty pair of parentheses
             ELSE IF inner.node = NoNode THEN R(TypeErr(s2), NoNode)
             ELSE R(s2, [type |-> "expression", expression |-> inner.node,
                         operation |-> Head(st.tokens),
                         left |-> [type |-> "expression", expression |-> inner.node],
                         returnType |-> inner.node.returnType])])])])
    \* Dereferencing
    ELSE IF nextIs(st, "dot", NoValue)
    THEN Bind([expression \in
                   {parseUnaryExpression(next(st, "dot", NoValue, "undefined"))} |->
             IF Failed(expression.st) THEN R(expression.st, NoNode)
             ELSE R(expression.st, [type |-> "dereference", operation |-> Head(st.tokens),
                                    left |-> expression.node, returnType |-> "any"])])
    \* Unary negation
    ELSE IF nextIs(st, "minus", NoValue)
    THEN Bind([expression \in
                   {parseUnaryExpression(next(st, "minus", NoValue, "undefined"))} |->
             IF Failed(expression.st) THEN R(expression.st, NoNode)
             ELSE R(expression.st, [type |-> "negation", operation |-> Head(st.tokens),
                                    left |-> expression.node, returnType |-> "integer"])])
    \* Bitwise negation
    ELSE IF nextIs(st, "bitwise not", NoValue)
    THEN Bind([expression \in
                   {parseUnaryExpression(next(st, "bitwise not", NoValue, "undefined"))} |->
             IF Failed(expression.st) THEN R(expression.st, NoNode)
             ELSE R(expression.st, [type |-> "bitwise negation", operation |-> Head(st.tokens),
                                    left |-> expression.node, returnType |-> "integer"])])
    ELSE Bind([s1 \in {next(st, NoType, NoValue, "undefined")} |->
         IF Failed(s1) THEN R(s1, NoNode)
         ELSE R(Throw(s1, Head(st.tokens),
                      [text |-> "Unexpected token - Expected expression",
                       value |-> Head(st.tokens).value]), NoNode)])

\* ------------------------------------------------------------- statements
RECURSIVE parseStatementList(_)
RECURSIVE parseStatement(_)
RECURSIVE parseIfStatement(_)

\* Mutant: the flag is set on every scope of the chain.
SetHasUntilOnChain(scopes) == [k \in 1..Len(scopes) |-> [scopes[k] EXCEPT !.hasUntil = TRUE]]

\* Mutant: the flag is set on the parent of the current scope.
SetHasUntilOnParent(scopes) ==
    IF Len(scopes) >= 2 THEN [scopes EXCEPT ![Len(scopes) - 1].hasUntil = TRUE]
    ELSE scopes

\* this.currentScope.hasUntil = true
SetHasUntil(scopes) == [scopes EXCEPT ![Len(scopes)].hasUntil = TRUE]

parseStatementList(st) ==
    Bind([statement \in {parseStatement(st)} |->
        IF Failed(Peek(statement.st)) THEN R(Peek(statement.st), NoNode)
        ELSE IF ~nextIs(statement.st, "right brace", NoValue)
        THEN Bind([rest \in {parseStatementList(statement.st)} |->
             IF Failed(rest.st) THEN R(rest.st, NoNode)
             ELSE R(rest.st, [type |-> "statement list", statement |-> statement.node,
                              next |-> rest.node])])
        ELSE R(statement.st, [type |-> "statement list", statement |-> statement.node,
                              next |-> NoNode])])

\* The until branch of parseStatement.
parseUntilStatement(st) ==
    Bind([s1 \in {next(st, "keyword", W_until, "undefined")} |->
    Bind([expression \in {parseExpression(
                            IF Failed(s1) THEN s1
                            ELSE IF s1.scopes = <<>> THEN TypeErr(s1)
                            ELSE [s1 EXCEPT !.scopes = SetHasUntil(@)])} |->
    Bind([s3 \in {next(expression.st, "newline", NoValue, "undefined")} |->
        IF Failed(s3) THEN R(s3, NoNode)
        ELSE R(s3, [type |-> "until statement", expression |-> expression.node])])])])

\* The loop branch of parseStatement.
parseLoopStatement(st) ==
    LET loopKeyword == Head(st.tokens)
        event == [kind |-> "loop", token |-> Head(st.tokens)]
    IN
    Bind([s3 \in {next(next(next(st, "keyword", W_loop, "undefined"),
                            "left brace", NoValue, "loop"),
                       "newline", NoValue, "undefined")} |->
    Bind([body \in {IF Failed(Peek(s3)) THEN R(Peek(s3), NoNode)
                    ELSE IF ~nextIs(s3, "right brace", NoValue)
                    THEN parseStatementList(s3) ELSE R(s3, NoNode)} |->
    Bind([s4 \in {body.st} |->
        IF Failed(s4) THEN R(s4, NoNode)
        ELSE IF s4.scopes = <<>> THEN R(TypeErr(s4), NoNode)
        ELSE IF ~s4.scopes[Len(s4.scopes)].hasUntil
        THEN R(Logged(Throw(s4, loopKeyword, [text |-> "Infinite loop"]),
                      event @@ [outcome |-> "infinite"]), NoNode)
        ELSE
        Bind([s6 \in {next(next(s4, "right brace", NoValue, "undefined"),
                           "newline", NoValue, "undefined")} |->
            IF Failed(s6) THEN R(Logged(s6, event @@ [outcome |-> "other"]), NoNode)
            ELSE R(Logged(s6, event @@ [outcome |-> "accepted"]),
                   [type |-> "loop", body |-> body.node])])])])])

\* The return branch of parseStatement: the keyword is tested, not consumed.
parseReturnStatement(st) ==
    IF nextIs(st, "newline", NoValue)
    THEN Bind([s1 \in {next(st, "newline", NoValue, "undefined")} |->
         IF Failed(s1) THEN R(s1, NoNode)
         ELSE R(s1, [type |-> "return statement", expression |-> NoNode])])
    ELSE Bind([expression \in {parseExpression(st)} |->
         Bind([s1 \in {next(expression.st, "newline", NoValue, "undefined")} |->
             IF Failed(s1) THEN R(s1, NoNode)
             ELSE R(s1, [type |-> "return statement",
                         expression |-> expression.node])])])

parseStatement(st) ==
    IF Failed(Peek(st)) THEN R(Peek(st), NoNode)
    ELSE IF nextIs(st, "keyword", W_if) THEN parseIfStatement(st)
    ELSE IF nextIs(st, "keyword", W_until) THEN parseUntilStatement(st)
    ELSE IF nextIs(st, "keyword", W_loop) THEN parseLoopStatement(st)
    ELSE IF nextIs(st, "keyword", W_return) THEN parseReturnStatement(st)
    ELSE
    Bind([expression \in {parseExpression(st)} |->
    Bind([s1 \in {expression.st} |->
        IF Failed(Peek(s1)) THEN R(Peek(s1), NoNode)
        \* Assignment statement
        ELSE IF nextIs(s1, "colon", NoValue)
        THEN Bind([expression2 \in
                     {parseExpression(next(s1, "colon", NoValue, "undefined"))} |->
             Bind([s3 \in {next(expression2.st, "newline", NoValue, "undefined")} |->
                 IF Failed(s3) THEN R(s3, NoNode)
                 ELSE R(s3, [type |-> "assignment", expression1 |-> expression.node,
                             expression2 |-> expression2.node])])])
        \* Single expression
        ELSE IF nextIs(s1, "newline", NoValue)
        THEN Bind([s2 \in {next(s1, "newline", NoValue, "undefined")} |->
             IF Failed(s2) THEN R(s2, NoNode)
             ELSE R(s2, [type |-> "expression statement",
                         expression |-> expression.node])])
        \* throw new TokenError(this.tokens[0], `... ${this.next().value} ...`)
        ELSE Bind([s2 \in {next(s1, NoType, NoValue, "undefined")} |->
             IF Failed(s2) THEN R(s2, NoNode)
             ELSE R(Throw(s2, Head(s1.tokens),
                          [text |-> "Unexpected token - Expected a statement",
                           value |-> Head(s1.tokens).value]), NoNode)])])])

parseIfStatement(st) ==
    Bind([condition \in {parseExpression(next(st, "keyword", W_if, "undefined"))} |->
    Bind([body \in {parseStatementList(
                      next(next(condition.st, "left brace", NoValue, "if"),
                           "newline", NoValue, "undefined"))} |->
    Bind([s5 \in {next(next(body.st, "right brace", NoValue, "undefined"),
                       "newline", NoValue, "undefined")} |->
    Bind([node \in {[type |-> "if statement", condition |-> condition.node,
                     body |-> body.node, elseBody |-> NoNode]} |->
        IF Failed(Peek(s5)) THEN R(Peek(s5), NoNode)
        ELSE IF nextIs(s5, "keyword", W_else)
        THEN (IF nextIs(s5, "keyword", W_if)
              THEN Bind([elseBody \in {parseIfStatement(s5)} |->
                   IF Failed(elseBody.st) THEN R(elseBody.st, NoNode)
                   ELSE R(elseBody.st, [node EXCEPT !.elseBody = elseBody.node])])
              ELSE IF nextIs(s5, "left brace", NoValue)
              THEN Bind([elseBody \in
                           {parseStatementList(
                              next(next(s5, "left brace", NoValue, "else"),
                                   "newline", NoValue, "undefined"))} |->
                   Bind([s8 \in {next(elseBody.st, "right brace", NoValue,
                                      "undefined")} |->
                       IF Failed(s8) THEN R(s8, NoNode)
                       ELSE R(s8, [node EXCEPT !.elseBody = elseBody.node])])])
              ELSE R(s5, node))
        ELSE R(s5, node)])])])])

\* ----------------------------------------------------------- declarations
RECURSIVE parseIdentifierList(_)
parseIdentifierList(st) ==
    LET nextToken == Head(st.tokens) IN
    Bind([s1 \in {next(st, "identifier", NoValue, "undefined")} |->
        IF Failed(Peek(s1)) THEN R(Peek(s1), NoNode)
        ELSE IF nextIs(s1, "comma", NoValue)
        THEN Bind([rest \in
                     {parseIdentifierList(next(s1, "comma", NoValue, "undefined"))} |->
                 IF Failed(rest.st) THEN R(rest.st, NoNode)
                 ELSE R(rest.st, [type |-> "identifier list", value |-> nextToken.value,
                                  token |-> nextToken, next |-> rest.node])])
        ELSE R(s1, [type |-> "identifier list", value |-> nextToken.value,
                    token |-> nextToken, next |-> NoNode])])

\* The identifiers of an identifier list, in order, as variables of type any.
RECURSIVE IdListVariables(_)
IdListVariables(id) ==
    IF id = NoNode THEN <<>>
    ELSE <<[name |-> id.value, token |-> id.token, type |-> "any"]>>
         \o IdListVariables(id.next)

\* The variables of a var list node and of the var lists chained to it.
RECURSIVE VarListVariables(_)
VarListVariables(node) ==
    IF node = NoNode THEN <<>>
    ELSE IdListVariables(node.idList) \o VarListVariables(node.next)

\* variables.forEach(variable => { if (hasVariableWithName) throw ...; push })
RECURSIVE DeclareVariables(_, _)
DeclareVariables(st, variables) ==
    IF variables = <<>> THEN st
    ELSE IF st.scopes = <<>> THEN TypeErr(st)
    ELSE IF hasVariableWithName(st.scopes, Head(variables).name)
    THEN Throw(st, Head(variables).token,
               [text |-> "Duplicate identifier", name |-> Head(variables).name])
    ELSE DeclareVariables(
            [st EXCEPT !.scopes[Len(st.scopes)].variables = Append(@, Head(variables))],
            Tail(variables))

RECURSIVE parseVarList(_, _)
parseVarList(st, hasPreviousNode) ==
    Bind([idList \in {parseIdentifierList(next(st, "keyword", W_var, "undefined"))} |->
    Bind([s2 \in {next(idList.st, "newline", NoValue, "undefined")} |->
    Bind([rest \in {IF Failed(Peek2(s2)) THEN R(Peek2(s2), NoNode)
                    ELSE IF nextNextIs(s2, "keyword", W_var)
                    THEN parseVarList(s2, TRUE) ELSE R(s2, NoNode)} |->
    Bind([node \in {[type |-> "var list", idList |-> idList.node,
                     next |-> rest.node]} |->
        IF Failed(rest.st) THEN R(rest.st, NoNode)
        ELSE IF hasPreviousNode THEN R(rest.st, node)
        ELSE Bind([s3 \in {DeclareVariables(rest.st, VarListVariables(node))} |->
             IF Failed(s3) THEN R(s3, NoNode) ELSE R(s3, node)])])])])])

\* The parameters pushed on the scope of the function, without any check.
PushParameters(scopes, args) ==
    [scopes EXCEPT ![Len(scopes)].variables = @ \o IdListVariables(args)]

parseFunctionDeclaration(st) ==
    Bind([s1 \in {next(st, "keyword", W_fun, "undefined")} |->
    Bind([s2 \in {next(s1, "identifier", NoValue, "undefined")} |->
        IF Failed(s2) THEN R(s2, NoNode)
        ELSE IF s2.scopes = <<>> THEN R(TypeErr(s2), NoNode)
        ELSE
        Bind([nameToken \in {Head(s1.tokens)} |->
        Bind([name \in {nameToken.value} |->
        IF name # W_init /\ hasFunctionWithName(s2.scopes, name)
        THEN R(Throw(s2, nameToken, [text |-> "There already exists a function",
                                     name |-> name]), NoNode)
        ELSE
        Bind([s3 \in {next(s2, "left parentheses", NoValue, "undefined")} |->
        Bind([args \in {IF Failed(Peek(s3)) THEN R(Peek(s3), NoNode)
                        ELSE IF ~nextIs(s3, "right parentheses", NoValue)
                        THEN parseIdentifierList(s3) ELSE R(s3, NoNode)} |->
        Bind([s6 \in {next(next(next(args.st, "right parentheses", NoValue, "undefined"),
                                "left brace", NoValue, "function"),
                           "newline", NoValue, "undefined")} |->
            IF Failed(s6) THEN R(s6, NoNode)
            \* this.currentScope.parent!.functions.push(scopeFunction)
            ELSE IF Len(s6.scopes) < 2 THEN R(TypeErr(s6), NoNode)
            ELSE
            Bind([s7 \in {[s6 EXCEPT !.scopes =
                            PushParameters(
                              [@ EXCEPT ![Len(@) - 1].functions =
                                  Append(@, [name |-> name,
                                             argumentCount |->
                                                 Len(IdListVariables(args.node))])],
                              args.node)]} |->
            Bind([varList \in {IF Failed(Peek(s7)) THEN R(Peek(s7), NoNode)
                               ELSE IF nextIs(s7, "keyword", W_var)
                               THEN parseVarList(s7, FALSE) ELSE R(s7, NoNode)} |->
            Bind([s8 \in {varList.st} |->
            \* !(nextIs("right brace") || (nextIs("newline") && nextNextIs("right brace")))
            Bind([p8 \in {IF Failed(Peek(s8)) THEN Peek(s8)
                          ELSE IF ~nextIs(s8, "right brace", NoValue)
                                  /\ nextIs(s8, "newline", NoValue) THEN Peek2(s8)
                          ELSE s8} |->
            Bind([statementList \in
                    {IF Failed(p8) THEN R(p8, NoNode)
                     ELSE IF ~(\/ nextIs(s8, "right brace", NoValue)
                               \/ (/\ nextIs(s8, "newline", NoValue)
                                   /\ nextNextIs(s8, "right brace", NoValue)))
                     THEN parseStatementList(s8) ELSE R(s8, NoNode)} |->
            Bind([s10 \in {next(next(statementList.st, "right brace", NoValue,
                                     "undefined"),
                                "newline", NoValue, "undefined")} |->
                IF Failed(s10) THEN R(s10, NoNode)
                ELSE R(s10, [type |-> "function declaration", name |-> name,
                             body |-> [type |-> "function body",
                                       varList |-> varList.node,
                                       statementList |-> statementList.node],
                             next |-> NoNode])])])])])])])])])])])])])])

parseFunctionList(st) ==
    Bind([first \in {parseFunctionDeclaration(st)} |->
        IF Failed(Peek(first.st)) THEN R(Peek(first.st), NoNode)
        ELSE IF nextIs(first.st, "keyword", W_fun)
        THEN Bind([second \in {parseFunctionDeclaration(first.st)} |->
             IF Failed(second.st) THEN R(second.st, NoNode)
             ELSE R(second.st, [first.node EXCEPT !.next = second.node])])
        ELSE R(first.st, first.node)])

\* Parser.parse()
parse(st) ==
    Bind([varList \in {IF Failed(Peek(st)) THEN R(Peek(st), NoNode)
                       ELSE IF nextIs(st, "keyword", W_var)
                       THEN parseVarList(st, FALSE) ELSE R(st, NoNode)} |->
    Bind([s1 \in {varList.st} |->
        IF Failed(Peek(s1)) THEN R(Peek(s1), NoNode)
        ELSE IF nextIs(s1, "keyword", W_fun)
        THEN Bind([funList \in {parseFunctionList(s1)} |->
             IF Failed(funList.st) THEN R(funList.st, NoNode)
             ELSE R(funList.st, [type |-> "program", varList |-> varList.node,
                                 funList |-> funList.node])])
        ELSE Bind([s2 \in {next(s1, NoType, NoValue, "undefined")} |->
             IF Failed(s2) THEN R(s2, NoNode)
             ELSE R(Throw(s2, Head(s1.tokens),
                          [text |-> "Unexpected token - Expected a function list or variable list",
                           value |-> Head(s1.tokens).value]), NoNode)])])])

\* ------------------------------------------------------- source programs
\* The token lists given to the parser are the tokens of source texts made
\* of lines: the tokens of a line are separated by one space and the line
\* ends with one newline character.
Kw(w) == [type |-> "keyword", value |-> w]
Id(w) == [type |-> "identifier", value |-> w]
IntLit(w) == [type |-> "integer", value |-> w]
LBrace == [type |-> "left brace", value |-> <<"{">>]
RBrace == [type |-> "right brace", value |-> <<"}">>]
LParen == [type |-> "left parentheses", value |-> <<"(">>]
RParen == [type |-> "right parentheses", value |-> <<")">>]
Comma == [type |-> "comma", value |-> <<",">>]
Colon == [type |-> "colon", value |-> <<":">>]
Dot == [type |-> "dot", value |-> <<".">>]
CharLit(w) == [type |-> "character", value |-> <<SQ>> \o w \o <<SQ>>]
StrLit(w) == [type |-> "string", value |-> <<DQ>> \o w \o <<DQ>>]

RECURSIVE ColumnOf(_, _)
ColumnOf(lexemes, k) ==
    IF k <= 1 THEN 0 ELSE ColumnOf(lexemes, k - 1) + Len(lexemes[k - 1].value) + 1

LayoutLine(lexemes, line) ==
    [k \in 1..Len(lexemes) |->
        [type |-> lexemes[k].type, value |-> lexemes[k].value,
         line |-> line, column |-> ColumnOf(lexemes, k)]]
    \o <<[type |-> "newline", value |-> <<NL>>, line |-> line,
          column |-> IF lexemes = <<>> THEN 0
                     ELSE ColumnOf(lexemes, Len(lexemes) + 1) - 1]>>

RECURSIVE Layout(_, _)
Layout(lines, line) ==
    IF lines = <<>> THEN <<>>
    ELSE LayoutLine(Head(lines), line) \o Layout(Tail(lines), line + 1)

\* var g / fun f ( a ) { / var x : a global, a parameter and a local.
Prelude == <<
    <<Kw(W_var), Id(<<"g">>)>>,
    <<Kw(W_fun), Id(<<"f">>), LParen, Id(<<"a">>), RParen, LBrace>>,
    <<Kw(W_var), Id(<<"x">>)>> >>

\* The lines a function body is made of.
BodyLines == {
    <<Id(<<"x">>)>>,
    <<Id(<<"g">>)>>,
    <<Id(<<"u">>)>>,
    <<Id(<<"a">>), Colon, IntLit(<<"1">>)>>,
    <<Kw(W_if), Id(<<"x">>), LBrace>>,
    <<Kw(W_loop), LBrace>>,
    <<Kw(W_until), Id(<<"x">>)>>,
    <<RBrace>>,
    <<LBrace>>,
    <<Kw(W_fun), Id(<<"h">>), LParen, RParen, LBrace>> }

\* The functions called in call statements: built-ins of 0 to 4 parameters,
\* the declared function f and the undeclared function h.
Callees == {W_makeimg, W_random, W_alloc, W_maketable, W_setcell, <<"f">>, <<"h">>}

RECURSIVE ArgumentLexemes(_)
ArgumentLexemes(k) ==
    IF k = 0 THEN <<>>
    ELSE IF k = 1 THEN <<IntLit(<<"1">>)>>
    ELSE ArgumentLexemes(k - 1) \o <<Comma, IntLit(<<"1">>)>>

CallLine(name, k) == <<Id(name), LParen>> \o ArgumentLexemes(k) \o <<RParen>>

\* Programs of statements: the prelude and up to MaxLines body lines.
StatementPrograms ==
    {Layout(Prelude \o body, 0) :
        body \in UNION {[1..n -> BodyLines] : n \in 0..MaxLines}}

\* Programs of one call statement with 0 to MaxArgs arguments.
CallPrograms ==
    {Layout(Prelude \o <<CallLine(name, k)>> \o tail, 0) :
        name \in Callees, k \in 0..MaxArgs, tail \in {<<>>, <<<<RBrace>>>>}}

\* Programs of declarations: up to two global var lines, the header
\* fun f ( a ) {, up to two local var lines and the closing brace.
GlobalVarLines == {
    <<>>,
    <<<<Kw(W_var), Id(<<"g">>)>>>>,
    <<<<Kw(W_var), Id(<<"g">>), Comma, Id(<<"g">>)>>>>,
    << <<Kw(W_var), Id(<<"g">>)>>, <<Kw(W_var), Id(<<"h">>)>> >> }

LocalVarLines == {
    <<Kw(W_var), Id(<<"x">>)>>,
    <<Kw(W_var), Id(<<"a">>)>>,
    <<Kw(W_var), Id(<<"g">>)>>,
    <<Kw(W_var), Id(<<"x">>), Comma, Id(<<"x">>)>>,
    <<Kw(W_var), Id(<<"y">>), Comma, Id(<<"a">>)>> }

\* fun f ( a ) { / fun f ( g ) { / fun f ( a , a ) {
DeclarationHeaders == {
    Prelude[2],
    <<Kw(W_fun), Id(<<"f">>), LParen, Id(<<"g">>), RParen, LBrace>>,
    <<Kw(W_fun), Id(<<"f">>), LParen, Id(<<"a">>), Comma, Id(<<"a">>), RParen, LBrace>> }

DeclarationPrograms ==
    {Layout(global \o <<header>> \o locals \o <<<<RBrace>>>>, 0) :
        global \in GlobalVarLines, header \in DeclarationHeaders,
        locals \in UNION {[1..n -> LocalVarLines] : n \in 0..2}}

\* Programs of 1 to MaxFunctions function declarations with empty bodies:
\* fun <name> ( <parameters> ) { / }
FunctionNames == {<<"f">>, W_init, W_random}

ParameterLists == {
    <<>>,
    <<Id(<<"a">>)>>,
    <<Id(<<"a">>), Comma, Id(<<"b">>)>> }

RECURSIVE FunctionLines(_)
FunctionLines(declarations) ==
    IF declarations = <<>> THEN <<>>
    ELSE << <<Kw(W_fun), Id(Head(declarations)[1]), LParen>>
               \o Head(declarations)[2] \o <<RParen, LBrace>>,
            <<RBrace>> >>
         \o FunctionLines(Tail(declarations))

FunctionPrograms ==
    {Layout(FunctionLines(declarations), 0) :
        declarations \in UNION {[1..n -> FunctionNames \X ParameterLists] :
                                  n \in 1..MaxFunctions}}

\* Programs of one expression statement in the function f of the prelude,
\* followed by a second function: operands of every type joined by one
\* operator of any level, or three of them joined by two operators.
Operators == {
    [type |-> "xor", value |-> <<"^">>],
    [type |-> "bitwise comparison", value |-> <<"&">>],
    [type |-> "comparison", value |-> <<"<">>],
    [type |-> "bitwise shift", value |-> <<"<", "<">>],
    [type |-> "additive", value |-> <<"+">>],
    [type |-> "multiplicative", value |-> <<"*">>] }

\* address, integer, character
ShortOperands == {<<Id(<<"x">>)>>, <<IntLit(<<"1">>)>>, <<CharLit(<<"c">>)>>}

\* and string, any
Operands == ShortOperands \cup {<<StrLit(<<"s">>)>>, <<Dot, Id(<<"x">>)>>}

\* The text of string literals with and without backslash escapes.
EscapeTexts == {
    <<"a">>,
    <<BSL, "n">>,
    <<BSL, BSL>>,
    <<"a", BSL, "t">>,
    <<BSL, "q">>,
    <<"a", BSL, "q">>,
    <<"a", BSL, ".">>,
    <<"a", BSL, BSL, ".">>,
    <<BSL, "n", BSL, "q">> }

ExpressionLines ==
    {<<StrLit(w)>> : w \in EscapeTexts}
    \cup
    {a \o <<o>> \o b : a \in Operands, o \in Operators, b \in Operands}
    \cup
    {a \o <<o1>> \o b \o <<o2>> \o c :
        a \in ShortOperands, o1 \in Operators, b \in ShortOperands,
        o2 \in Operators, c \in ShortOperands}

\* return / return x / return 1
ReturnLines == {
    <<Kw(W_return)>>,
    <<Kw(W_return), Id(<<"x">>)>>,
    <<Kw(W_return), IntLit(<<"1">>)>> }

\* The token of the character - : MINUS stands before ADDITIVE in the order
\* of the token types, so the tokenizer gives it the type minus.
Minus == [type |-> "minus", value |-> <<"-">>]

\* 1 - 1 / x - 1 / 1 + 1 - 1
SubtractionLines == {
    <<IntLit(<<"1">>), Minus, IntLit(<<"1">>)>>,
    <<Id(<<"x">>), Minus, IntLit(<<"1">>)>>,
    <<IntLit(<<"1">>), [type |-> "additive", value |-> <<"+">>], IntLit(<<"1">>),
      Minus, IntLit(<<"1">>)>> }

ExpressionPrograms ==
    {Layout(Prelude \o <<line>>
            \o << <<RBrace>>,
                  <<Kw(W_fun), Id(<<"h">>), LParen, RParen, LBrace>>,
                  <<RBrace>> >>, 0) :
        line \in ExpressionLines \cup ReturnLines \cup SubtractionLines}

\* Programs of nested loops: the prelude and 4 to MaxLoopLines lines that
\* open a loop, state its until condition or close a brace.
LoopLines == {
    <<Kw(W_loop), LBrace>>,
    <<Kw(W_until), Id(<<"x">>)>>,
    <<RBrace>> }

LoopPrograms ==
    {Layout(Prelude \o body, 0) :
        body \in UNION {[1..n -> LoopLines] : n \in 4..MaxLoopLines}}

\* Programs of an if statement with an else part, followed by a statement:
\* if x { / x / } / else { / x / } / x    and the same with  else if x {
ElseLines == {
    <<Kw(W_else), LBrace>>,
    <<Kw(W_else), Kw(W_if), Id(<<"x">>), LBrace>> }

ElsePrograms ==
    {Layout(Prelude
            \o << <<Kw(W_if), Id(<<"x">>), LBrace>>, <<Id(<<"x">>)>>, <<RBrace>>,
                  else, <<Id(<<"x">>)>>, <<RBrace>>,
                  <<Id(<<"x">>)>>, <<RBrace>>,
                  <<Kw(W_fun), Id(<<"h">>), LParen, RParen, LBrace>>,
                  <<RBrace>> >>, 0) :
        else \in ElseLines}

Programs ==
    StatementPrograms \cup CallPrograms \cup DeclarationPrograms \cup FunctionPrograms
    \cup ExpressionPrograms \cup LoopPrograms \cup ElsePrograms

\* ------------------------------------------------------------------ state
\* code, lex: the text given to tokenize and the locals of tokenize.
\* tokens, parser, AST, pc: the token list a Parser was constructed with,
\* the parser's state, the node parse() returned and the position of
\* refreshDiagnostics around its call of parse().
VARIABLES code, lex, tokens, parser, AST, pc

vars == <<code, lex, tokens, parser, AST, pc>>

Texts == UNION {[1..n -> Alphabet] : n \in 0..MaxLen}

Init ==
    /\ code \in Texts
    /\ lex = LexStart(code)
    /\ tokens = <<>>
    /\ parser = ParserStart(<<>>)
    /\ AST = NoNode
    /\ pc = "idle"

\* while (remainingCode) { ... }
LexStep ==
    /\ lex.pc = "loop"
    /\ lex.remainingCode # <<>>
    /\ lex' = LexIteration(lex)
    /\ UNCHANGED <<code, tokens, parser, AST, pc>>

\* return tokens
LexReturn ==
    /\ lex.pc = "loop"
    /\ lex.remainingCode = <<>>
    /\ lex' = [lex EXCEPT !.pc = "returned"]
    /\ UNCHANGED <<code, tokens, parser, AST, pc>>

Next == LexStep \/ LexReturn

\* tokenize on every text of the alphabet
Spec == Init /\ [][Next]_vars

InitParser ==
    /\ code = <<>>
    /\ lex = [LexStart(<<>>) EXCEPT !.pc = "returned"]
    /\ tokens \in Programs
    /\ parser = ParserStart(tokens)
    /\ AST = NoNode
    /\ pc = "parse"

\* let AST = new Parser(tokens, diagnostics).parse()
Parse ==
    /\ pc = "parse"
    /\ LET r == parse(parser) IN
        /\ parser' = r.st
        /\ AST' = r.node
        /\ pc' = IF Failed(r.st) THEN "catch" ELSE "set"
    /\ UNCHANGED <<code, lex, tokens>>

\* catch (error) { if (error instanceof TokenError) createTokenDiagnostic(...)
\*                 else console.log(error) }
Catch ==
    /\ pc = "catch"
    /\ parser' = IF parser.err.kind = "TokenError"
                 THEN createTokenDiagnostic(parser, parser.err.token,
                                            parser.err.message, parser.err.severity)
                 ELSE parser
    /\ pc' = "set"
    /\ UNCHANGED <<code, lex, tokens, AST>>

\* tranqDiagnostics.set(doc.uri, diagnostics)
SetDiagnostics ==
    /\ pc = "set"
    /\ pc' = "done"
    /\ UNCHANGED <<code, lex, tokens, parser, AST>>

NextParser == Parse \/ Catch \/ SetDiagnostics

\* parse on the token lists of the source programs
SpecParser == InitParser /\ [][NextParser]_vars

\* -------------------------------------------------- refreshDiagnostics
\* Source texts given to refreshDiagnostics as the text of the document.
\* "fun init() {\nvar x\nx: 5\nreturn\n}"
ScenarioSource ==
    W_fun \o <<" ">> \o W_init \o <<"(", ")", " ", "{", NL>>
    \o W_var \o <<" ", "x", NL>>
    \o <<"x", ":", " ", "5", NL>>
    \o W_return \o <<NL>>
    \o <<"}">>

\* "var x\n"
VarOnlySource == W_var \o <<" ", "x", NL>>

\* "fun f() {\n}" and the same with a trailing newline
FunctionOnlySource == W_fun \o <<" ", "f", "(", ")", " ", "{", NL, "}">>

\* "fun f(p) {\np + 1\nq\n}\n": a warning, then a reference that fails
WarningThenErrorSource ==
    W_fun \o <<" ", "f", "(", "p", ")", " ", "{", NL>>
    \o <<"p", " ", "+", " ", "1", NL>>
    \o <<"q", NL>>
    \o <<"}", NL>>

\* fun f() { / "\q" / }
EscapeSource ==
    W_fun \o <<" ", "f", "(", ")", " ", "{", NL>>
    \o <<DQ, BSL, "q", DQ, NL>>
    \o <<"}", NL>>

\* x = 1 : an unrecognized token, reported before the parse
EqualSignSource == <<"x", " ", "=", " ", "1", NL>>

Sources ==
    {ScenarioSource, VarOnlySource, FunctionOnlySource,
     FunctionOnlySource \o <<NL>>, WarningThenErrorSource, EscapeSource,
     EqualSignSource}

\* for (let i = 0; i < tokens.length; i++) if (token.type === "unrecognized")
\*     createTokenDiagnostic(diagnostics, token, <message>, Error)
RECURSIVE ReportUnrecognized(_, _)
ReportUnrecognized(st, ts) ==
    IF ts = <<>> THEN st
    ELSE LET token == Head(ts)
             message ==
                 IF \A i \in 1..Len(token.value) : token.value[i] = ";"
                 THEN [text |-> "Semicolons are not allowed"]
                 ELSE IF \A i \in 1..Len(token.value) : token.value[i] = "\r"
                 THEN [text |-> "Carriage returns are not allowed"]
                 ELSE IF token.value = <<"=">>
                 THEN [text |-> "Equal signs are not used"]
                 ELSE [text |-> "Unrecognized token", value |-> token.value]
         IN  ReportUnrecognized(
                 IF token.type = "unrecognized"
                 THEN createTokenDiagnostic(st, token, message, "Error")
                 ELSE st,
                 Tail(ts))

InitRefresh ==
    /\ code \in Sources
    /\ lex = LexStart(code)
    /\ tokens = <<>>
    /\ parser = ParserStart(<<>>)
    /\ AST = NoNode
    /\ pc = "tokenize"

\* let tokens = tokenize(doc.getText()) has returned; the loop over the
\* unrecognized tokens; new Parser(tokens, diagnostics)
Report ==
    /\ pc = "tokenize"
    /\ lex.pc = "returned"
    /\ tokens' = lex.tokens
    /\ parser' = ReportUnrecognized(ParserStart(lex.tokens), lex.tokens)
    /\ pc' = "parse"
    /\ UNCHANGED <<code, lex, AST>>

NextRefresh == LexStep \/ LexReturn \/ Report \/ Parse \/ Catch \/ SetDiagnostics

\* refreshDiagnostics on the source texts
SpecRefresh == InitRefresh /\ [][NextRefresh]_vars

\* --------------------------------------------------- createTokenDiagnostic
\* Calls of createTokenDiagnostic on one diagnostics array, in the module
\* the TypeScript compiles to and in the compiled module src/public holds.
\* createTokenDiagnostic of src/public/diagnostics.js: no test of
\* token.hasDiagnostic and no assignment to it.
createTokenDiagnosticPublic(st, token, message, severity) ==
    [st EXCEPT
        !.diagnostics = Append(@,
            [startLine |-> token.line, startColumn |-> token.column,
             endLine |-> token.line, endColumn |-> token.column + Len(token.value),
             message |-> message, severity |-> severity])]

\* The tokens of the line  x = 1
ReportTokens ==
    LayoutLine(<<Id(<<"x">>), [type |-> "unrecognized", value |-> <<"=">>],
                 IntLit(<<"1">>)>>, 0)

ReportMessages == {[text |-> "Equal signs are not used"], [text |-> "Unexpected token"]}

Severities == {"Error", "Warning"}

Modules == {"src/src/diagnostics.ts", "src/public/diagnostics.js"}

InitReport ==
    /\ code = <<>>
    /\ lex = LexStart(code)
    /\ tokens = ReportTokens
    /\ parser = ParserStart(tokens)
    /\ AST = NoNode
    /\ pc \in Modules

ReportCall ==
    /\ pc = "src/src/diagnostics.ts"
    /\ Len(parser.log) < MaxReports
    /\ \E k \in 1..Len(tokens), message \in ReportMessages, severity \in Severities :
          parser' = [createTokenDiagnostic(parser, tokens[k], message, severity)
                        EXCEPT !.log = Append(@, [kind |-> "report", token |-> tokens[k],
                                                  message |-> message,
                                                  severity |-> severity])]
    /\ UNCHANGED <<code, lex, tokens, AST, pc>>

ReportCallPublic ==
    /\ pc = "src/public/diagnostics.js"
    /\ Len(parser.log) < MaxReports
    /\ \E k \in 1..Len(tokens), message \in ReportMessages, severity \in Severities :
          parser' = [createTokenDiagnosticPublic(parser, tokens[k], message, severity)
                        EXCEPT !.log = Append(@, [kind |-> "report", token |-> tokens[k],
                                                  message |-> message,
                                                  severity |-> severity])]
    /\ UNCHANGED <<code, lex, tokens, AST, pc>>

NextReport == ReportCall \/ ReportCallPublic

SpecReport == InitReport /\ [][NextReport]_vars

\* ------------------------------------------------- properties of tokenize
RECURSIVE ConcatMatched(_)
ConcatMatched(ms) ==
    IF ms = <<>> THEN <<>> ELSE Head(ms).text \o ConcatMatched(Tail(ms))

RECURSIVE ConcatValues(_)
ConcatValues(ts) ==
    IF ts = <<>> THEN <<>> ELSE Head(ts).value \o ConcatValues(Tail(ts))

Kinds(ts) == [k \in 1..Len(ts) |-> ts[k].type]

LastMatch == lex.matched[Len(lex.matched)]
LastToken == lex.tokens[Len(lex.tokens)]
\* Offset in code at which the last match starts, and the text from there on.
LastOffset == Len(code) - Len(lex.remainingCode) - Len(LastMatch.text)
TextAtLast == SubSeq(code, LastOffset + 1, Len(code))
JustEmitted == lex.matched # <<>> /\ LastMatch.emitted

\* C1: tokenize never raises 'No match found', every iteration consumes at
\* least one character, the matched texts in order (emitted and discarded)
\* followed by the text still to be read are exactly the input, and the run
\* to the end of the text returns.
C1_EveryCharacterAccounted ==
    /\ lex.pc # "threw"
    /\ \A k \in 1..Len(lex.matched) : Len(lex.matched[k].text) >= 1
    /\ ConcatMatched(lex.matched) \o lex.remainingCode = code
    /\ (lex.pc = "returned" => ConcatMatched(lex.matched) = code)
    /\ (lex.matched = <<>> => tokenize(code).pc = "returned")

\* A finished run that used the fallback rule, emitted and discarded text.
C1_Witness ==
    /\ lex.pc = "returned"
    /\ \E k \in 1..Len(lex.tokens) : lex.tokens[k].type = "unrecognized"
    /\ \E k \in 1..Len(lex.matched) : ~lex.matched[k].emitted
    /\ Len(lex.matched) >= 3

\* The kind the specification names for each punctuation character.
PunctuationKind ==
    [c \in {"{", "}", "(", ")", "~", "^"} |->
        CASE c = "{" -> "left brace"
          [] c = "}" -> "right brace"
          [] c = "(" -> "left parentheses"
          [] c = ")" -> "right parentheses"
          [] c = "~" -> "bitwise not"
          [] c = "^" -> "xor"]

\* C2: a token whose text is one punctuation character has the kind named
\* for that character; in particular the tokens of { and } differ in kind.
C2_PunctuationKinds ==
    \A k \in 1..Len(lex.tokens) :
        LET t == lex.tokens[k] IN
        (Len(t.value) = 1 /\ t.value[1] \in DOMAIN PunctuationKind)
            => t.type = PunctuationKind[t.value[1]]

\* C3: the token sequence never holds two adjacent newline tokens.
C3_NoAdjacentNewlines ==
    \A k \in 1..(Len(lex.tokens) - 1) :
        ~(lex.tokens[k].type = "newline" /\ lex.tokens[k + 1].type = "newline")

NewlinesIn(s) == Cardinality({i \in 1..Len(s) : s[i] = NL})
\* Offset just after the last newline character among the first n characters.
LineStart(s, n) ==
    IF \E i \in 1..n : s[i] = NL
    THEN CHOOSE i \in 1..n : s[i] = NL /\ \A j \in (i + 1)..n : s[j] # NL
    ELSE 0

\* C4: an emitted token's line is the number of newline characters before
\* it in the input, and its column is its offset from the start of its line.
C4_LineAndColumn ==
    JustEmitted =>
        /\ LastToken.line = NewlinesIn(SubSeq(code, 1, LastOffset))
        /\ LastToken.column = LastOffset - LineStart(code, LastOffset)

MultiCharOperators ==
    { [text |-> <<"<", "<">>, kind |-> "bitwise shift"],
      [text |-> <<">", ">">>, kind |-> "bitwise shift"],
      [text |-> <<"<", "=">>, kind |-> "comparison"],
      [text |-> <<">", "=">>, kind |-> "comparison"],
      [text |-> <<"=", "=">>, kind |-> "comparison"],
      [text |-> <<"!", "=">>, kind |-> "comparison"] }

\* C5: where a match starts at a multi-character operator, the token emitted
\* is that whole operator with its kind, never its one-character prefix.
C5_OperatorsNotSplit ==
    lex.matched # <<>> =>
        \A op \in MultiCharOperators :
            StartsWith(TextAtLast, op.text) =>
                /\ LastMatch.emitted
                /\ LastToken.value = op.text
                /\ LastToken.type = op.kind

KeywordSet == {Keywords[k] : k \in 1..Len(Keywords)}
WordAt(s) == SubSeq(s, 1, 1 + RunLen(Tail2(s), IsWordChar))

\* C6: where a match starts at a letter or underscore, the token emitted is
\* the whole word; it is a keyword when the word is a reserved word and an
\* identifier otherwise (so `if` is a keyword and `iff` one identifier).
C6_KeywordOrIdentifier ==
    (lex.matched # <<>> /\ TextAtLast[1] \in Lower \cup Upper \cup {"_"}) =>
        /\ LastMatch.emitted
        /\ LastToken.value = WordAt(TextAtLast)
        /\ LastToken.type =
             (IF WordAt(TextAtLast) \in KeywordSet THEN "keyword" ELSE "identifier")

\* A word that starts with a reserved word was emitted as one identifier.
C6_Witness ==
    /\ lex.pc = "returned"
    /\ \E k \in 1..Len(lex.tokens) :
          /\ lex.tokens[k].type = "identifier"
          /\ StartsWith(lex.tokens[k].value, <<"i", "f">>)
          /\ Len(lex.tokens[k].value) > 2

\* C7 as stated: re-tokenizing the concatenation of the emitted token texts
\* yields the same sequence of kinds.
C7_RoundTripConcatenation ==
    lex.pc = "returned" =>
        Kinds(tokenize(ConcatValues(lex.tokens)).tokens) = Kinds(lex.tokens)

\* C7 amended: re-tokenizing each emitted token text on its own yields
\* exactly one token, of the same kind and text.
C7_RoundTripPerToken ==
    \A k \in 1..Len(lex.tokens) :
        LET again == tokenize(lex.tokens[k].value) IN
        /\ again.pc = "returned"
        /\ Len(again.tokens) = 1
        /\ again.tokens[1].type = lex.tokens[k].type
        /\ again.tokens[1].value = lex.tokens[k].value

\* A finished run whose tokens were separated by discarded text only.
C7_Witness ==
    /\ lex.pc = "returned"
    /\ Len(lex.tokens) >= 2
    /\ \E k \in 1..Len(lex.matched) : ~lex.matched[k].emitted

\* --------------------------------------------------- properties of parse
\* The properties speak about the source program through its token list:
\* what is declared, written or enclosed at a token is read off the tokens
\* before or after it, independently of the parser.

IndexOf(tok) == CHOOSE i \in 1..Len(tokens) : tokens[i] = tok

Events(kind) == {parser.log[k] : k \in {j \in 1..Len(parser.log) : parser.log[j].kind = kind}}

\* The variable names declared in the scopes that are open after the first
\* n tokens: a stack of name sets, pushed at { (with the parameters of the
\* function header just read) and popped at }; the names of a var line go
\* to the top of the stack.
RECURSIVE OpenScopes(_, _)
OpenScopes(ts, n) ==
    IF n = 0 THEN [stack |-> <<{}>>, mode |-> "none", pending |-> {}]
    ELSE
    LET w == OpenScopes(ts, n - 1)
        t == ts[n]
    IN  IF t.type = "keyword" /\ t.value = W_var THEN [w EXCEPT !.mode = "var"]
        ELSE IF t.type = "keyword" /\ t.value = W_fun
        THEN [w EXCEPT !.mode = "fun", !.pending = {}]
        ELSE IF t.type = "left parentheses" /\ w.mode = "fun"
        THEN [w EXCEPT !.mode = "parameters"]
        ELSE IF t.type = "right parentheses" /\ w.mode = "parameters"
        THEN [w EXCEPT !.mode = "none"]
        ELSE IF t.type = "identifier" /\ w.mode = "var" /\ w.stack # <<>>
        THEN [w EXCEPT !.stack[Len(w.stack)] = @ \cup {t.value}]
        ELSE IF t.type = "identifier" /\ w.mode = "parameters"
        THEN [w EXCEPT !.pending = @ \cup {t.value}]
        ELSE IF t.type = "newline" THEN [w EXCEPT !.mode = "none"]
        ELSE IF t.type = "left brace"
        THEN [w EXCEPT !.stack = Append(@, w.pending), !.pending = {}]
        ELSE IF t.type = "right brace" /\ w.stack # <<>>
        THEN [w EXCEPT !.stack = SubSeq(@, 1, Len(@) - 1)]
        ELSE w

VisibleVariables(ts, n) ==
    LET w == OpenScopes(ts, n) IN UNION {w.stack[k] : k \in 1..Len(w.stack)}

\* The names declared by a var line or as a parameter anywhere before token n.
DeclaredBefore(ts, n) ==
    {ts[k].value : k \in {j \in 1..(n - 1) :
        ts[j].type = "identifier" /\ OpenScopes(ts, j - 1).mode \in {"var", "parameters"}}}

DuplicateDeclarations(ts) ==
    {j \in 1..Len(ts) :
        /\ ts[j].type = "identifier"
        /\ OpenScopes(ts, j - 1).mode = "var"
        /\ ts[j].value \in VisibleVariables(ts, j - 1)}

FirstDuplicate(ts) ==
    CHOOSE j \in DuplicateDeclarations(ts) : \A k \in DuplicateDeclarations(ts) : j <= k

\* C11: a program that declares, in a var line, a name already declared in
\* the visible scope chain (same line, earlier line, parameter or global)
\* ends in the TokenError 'duplicate identifier' at the token of the second
\* occurrence.
C11_DuplicateDeclaration ==
    (pc = "done" /\ DuplicateDeclarations(tokens) # {}) =>
        /\ parser.err.kind = "TokenError"
        /\ parser.err.token = tokens[FirstDuplicate(tokens)]
        /\ parser.err.message.text = "Duplicate identifier"

\* The same, for the duplicates that stand on the first var line of a scope.
C11_FirstLineOnly ==
    (pc = "done" /\ DuplicateDeclarations(tokens) # {}
       /\ LET j == FirstDuplicate(tokens) IN
           ~\E k \in 1..(j - 1) :
               /\ tokens[k].type = "newline"
               /\ OpenScopes(tokens, k - 1).mode = "var"
               /\ tokens[k + 1].type = "keyword" /\ tokens[k + 1].value = W_var) =>
        /\ parser.err.kind = "TokenError"
        /\ parser.err.token = tokens[FirstDuplicate(tokens)]
        /\ parser.err.message.text = "Duplicate identifier"

\* The token at k has been removed from the parser's list.
Consumed(k) == k <= Len(tokens) - Len(parser.tokens)

\* The first token of the line of the token at k.
FirstOfLine(ts, k) ==
    ts[CHOOSE i \in 1..k :
          /\ ts[i].line = ts[k].line
          /\ \A m \in 1..k : ts[m].line = ts[k].line => i <= m]

IsKeyword(tok, word) == tok.type = "keyword" /\ tok.value = word

\* The indices of the parameters of the function headers, and those of
\* them whose name is that of a global variable declared above or of an
\* earlier parameter of the same header.
Parameters(ts) ==
    {j \in 2..Len(ts) :
        /\ ts[j].type = "identifier"
        /\ ts[j - 1].type \in {"left parentheses", "comma"}
        /\ IsKeyword(FirstOfLine(ts, j), W_fun)}

GlobalsAbove(ts, j) ==
    {ts[k].value : k \in {i \in 1..(j - 1) :
        /\ ts[i].type = "identifier"
        /\ IsKeyword(FirstOfLine(ts, i), W_var)
        /\ \A m \in 1..i : ts[m].type # "left brace"}}

DuplicateParameters(ts) ==
    {j \in Parameters(ts) :
        \/ ts[j].value \in GlobalsAbove(ts, j)
        \/ \E k \in Parameters(ts) :
              k < j /\ ts[k].line = ts[j].line /\ ts[k].value = ts[j].value}

BodyEntered(ts, j) ==
    \E k \in (j + 1)..Len(ts) :
        ts[k].line = ts[j].line /\ ts[k].type = "newline" /\ Consumed(k)

NoRepeatedName(variables) ==
    \A i, k \in 1..Len(variables) : variables[i].name = variables[k].name => i = k

\* C21: no variable name occurs twice among the variables of the scopes
\* from the current scope up to the global scope, parameters included, and
\* a function whose parameter repeats the name of a global variable or of an
\* earlier parameter is the TokenError 'duplicate identifier' at that
\* parameter.
C21_NoShadowing ==
    /\ NoRepeatedName(allVariables(parser.scopes))
    /\ \A j \in DuplicateParameters(tokens) :
          (pc = "done" /\ BodyEntered(tokens, j)) =>
              /\ parser.err.kind = "TokenError"
              /\ parser.err.token \in {tokens[k] : k \in DuplicateParameters(tokens)}
              /\ parser.err.message.text = "Duplicate identifier"

\* The half of C21 that holds: the variables of var lines never repeat a
\* name of the chain when the parameters do not.
C21_VarLinesOnly ==
    DuplicateParameters(tokens) = {} => NoRepeatedName(allVariables(parser.scopes))

\* The indices of the names of the function headers `fun name (`.
Headers(ts) ==
    {j \in 2..Len(ts) :
        /\ ts[j].type = "identifier"
        /\ ts[j - 1].type = "keyword" /\ ts[j - 1].value = W_fun}

\* The header at j names a built-in or the function of an earlier header,
\* and is not init.
Collides(ts, j) ==
    /\ ts[j].value # W_init
    /\ \/ \E k \in 1..Len(builtInFunctions) : builtInFunctions[k].name = ts[j].value
       \/ \E k \in Headers(ts) : k < j /\ ts[k].value = ts[j].value

Collisions(ts) == {j \in Headers(ts) : Collides(ts, j)}

\* The number of parameters written in the header whose name is at j: the
\* identifiers between its parentheses.
ParametersWritten(ts, j) ==
    LET close == CHOOSE c \in (j + 2)..Len(ts) :
                    /\ ts[c].type = "right parentheses"
                    /\ \A d \in (j + 2)..(c - 1) : ts[d].type # "right parentheses"
    IN  Cardinality({d \in (j + 2)..(close - 1) : ts[d].type = "identifier"})

\* The function of the header at j is among the functions of the global scope,
\* with the number of parameters written in the header as its arity.
Recorded(ts, j) ==
    /\ parser.scopes # <<>>
    /\ \E k \in 1..Len(parser.scopes[1].functions) :
          parser.scopes[1].functions[k]
            = [name |-> ts[j].value, argumentCount |-> ParametersWritten(ts, j)]

\* C12: in a program of function declarations, the first declaration whose
\* name is a built-in or an already declared function, init excepted, is the
\* TokenError 'there already exists a function' at its name token; every
\* declaration before it (all of them if there is none) is recorded in the
\* enclosing scope with its parameter count as arity, and no TokenError is
\* raised if there is none.
C12_FunctionDeclaration ==
    (pc = "done" /\ tokens \in FunctionPrograms) =>
        /\ Collisions(tokens) # {} =>
              LET first == CHOOSE j \in Collisions(tokens) :
                              \A k \in Collisions(tokens) : j <= k
              IN  /\ parser.err.kind = "TokenError"
                  /\ parser.err.token = tokens[first]
                  /\ parser.err.message.text = "There already exists a function"
                  /\ \A j \in Headers(tokens) : j < first => Recorded(tokens, j)
        /\ Collisions(tokens) = {} =>
              /\ parser.err.kind # "TokenError"
              /\ \A j \in Headers(tokens) : Recorded(tokens, j)

\* The same, for programs of at most two function declarations.
C12_TwoDeclarations ==
    Cardinality(Headers(tokens)) <= 2 => C12_FunctionDeclaration

\* The diagnostics of the sink that start at the position of a token.
DiagnosticsAt(tok) ==
    {k \in 1..Len(parser.diagnostics) :
        /\ parser.diagnostics[k].startLine = tok.line
        /\ parser.diagnostics[k].startColumn = tok.column}

OperatorTypes ==
    <<"xor", "bitwise comparison", "comparison", "bitwise shift", "additive",
      "multiplicative">>

Precedence(tok) == CHOOSE l \in 1..Len(OperatorTypes) : OperatorTypes[l] = tok.type

ResultType(tok) ==
    IF tok.type \in {"comparison", "bitwise comparison"} THEN "boolean" ELSE "integer"

OperatorsOfLine(ts, j) ==
    {k \in 1..Len(ts) :
        /\ ts[k].line = ts[j].line
        /\ \E l \in 1..Len(OperatorTypes) : OperatorTypes[l] = ts[k].type}

\* The type of the operand that is a single literal, variable or dereference.
OperandEndingAt(ts, k) ==
    IF ts[k].type = "identifier"
    THEN (IF k > 1 /\ ts[k - 1].type = "dot" THEN "any" ELSE "address")
    ELSE ts[k].type

OperandStartingAt(ts, k) ==
    IF ts[k].type = "dot" THEN "any"
    ELSE IF ts[k].type = "identifier" THEN "address"
    ELSE ts[k].type

LeftType(ts, j) ==
    LET before == {k \in OperatorsOfLine(ts, j) : k < j} IN
    IF before # {} /\ Precedence(ts[CHOOSE k \in before : \A m \in before : m <= k])
                        >= Precedence(ts[j])
    THEN ResultType(ts[CHOOSE k \in before : \A m \in before : m <= k])
    ELSE OperandEndingAt(ts, j - 1)

RightType(ts, j) ==
    LET after == {k \in OperatorsOfLine(ts, j) : k > j} IN
    IF after # {} /\ Precedence(ts[CHOOSE k \in after : \A m \in after : k <= m])
                       > Precedence(ts[j])
    THEN ResultType(ts[CHOOSE k \in after : \A m \in after : k <= m])
    ELSE OperandStartingAt(ts, j + 1)

Compatible(l, r) ==
    \/ l = r
    \/ l = "any" \/ r = "any"
    \/ {l, r} = {"address", "integer"}

\* C17: a binary operator of any level whose operands were parsed is
\* accepted iff their types l and r are equal, or one is any, or they are
\* address and integer in either order, l being the result type of the left
\* operand built so far (boolean after a comparison or bitwise comparison,
\* integer after the other levels); otherwise it is the TokenError 'cannot
\* <operate> l with r' at the operator token.
C17_OperandsMatch ==
    \A e \in Events("binary") :
        LET j == IndexOf(e.token)
            l == LeftType(tokens, j)
            r == RightType(tokens, j)
        IN  /\ (e.outcome = "accepted") <=> Compatible(l, r)
            /\ (e.outcome # "accepted") =>
                  /\ parser.err.kind = "TokenError"
                  /\ parser.err.token = e.token
                  /\ parser.err.message.text = "Cannot"
                  /\ parser.err.message.left = l
                  /\ parser.err.message.right = r

\* One expression in which an integer and an address were accepted in both
\* orders.
C17_Witness ==
    /\ pc = "done"
    /\ \E e \in Events("binary") :
          e.outcome = "accepted" /\ e.left = "integer" /\ e.right = "address"
    /\ \E e \in Events("binary") :
          e.outcome = "accepted" /\ e.left = "address" /\ e.right = "integer"

\* The characters a string escapes: each backslash escapes the character
\* after it, read from left to right.
RECURSIVE EscapedCharacters(_)
EscapedCharacters(v) ==
    IF Len(v) < 2 THEN {}
    ELSE IF Head(v) = BSL THEN {v[2]} \cup EscapedCharacters(Tail(Tail(v)))
    ELSE EscapedCharacters(Tail(v))

LegalEscapes == {"b", "n", "r", "t", BSL}

\* C18: a parsed string literal that escapes only b, n, r, t or the
\* backslash is accepted, and one that escapes any other character is the
\* TokenError 'invalid escape sequence' at the string token.
C18_StringEscapes ==
    pc = "done" =>
        \A k \in 1..Len(tokens) :
            (tokens[k].type = "string" /\ Consumed(k)) =>
                ((~(EscapedCharacters(tokens[k].value) \subseteq LegalEscapes))
                 <=> /\ Failed(parser)
                     /\ parser.err.kind = "TokenError"
                     /\ parser.err.token = tokens[k]
                     /\ parser.err.message.text = "Invalid escape sequence")

\* The half of C18 that holds: a string of legal escapes only is accepted.
C18_LegalEscapesAccepted ==
    pc = "done" =>
        \A k \in 1..Len(tokens) :
            (tokens[k].type = "string" /\ Consumed(k)
             /\ EscapedCharacters(tokens[k].value) \subseteq LegalEscapes) =>
                ~(Failed(parser) /\ parser.err.kind = "TokenError"
                  /\ parser.err.token = tokens[k])

\* The type the caller of next supplies for the scope a left brace opens:
\* that of the statement the brace ends the first line of, and none where
\* the brace is consumed as an unexpected token.
SuppliedType(ts, k) ==
    LET first == ts[CHOOSE i \in 1..k :
                        /\ ts[i].line = ts[k].line
                        /\ \A m \in 1..k : ts[m].line = ts[k].line => i <= m]
    IN  IF first.type # "keyword" THEN "undefined"
        ELSE IF first.value = W_fun THEN "function"
        ELSE IF first.value = W_loop THEN "loop"
        ELSE IF first.value = W_if THEN "if"
        ELSE IF first.value = W_else THEN "else"
        ELSE "undefined"

\* The scope chain the first n tokens leave: a left brace pushes, a right
\* brace pops, every other token leaves it alone.
RECURSIVE ExpectedChain(_, _)
ExpectedChain(ts, n) ==
    IF n = 0 THEN <<"global">>
    ELSE IF ts[n].type = "left brace"
    THEN Append(ExpectedChain(ts, n - 1), SuppliedType(ts, n))
    ELSE IF ts[n].type = "right brace"
    THEN SubSeq(ExpectedChain(ts, n - 1), 1, Len(ExpectedChain(ts, n - 1)) - 1)
    ELSE ExpectedChain(ts, n - 1)

BracesAmong(ts, n, type) == Cardinality({k \in 1..n : ts[k].type = type})

RECURSIVE CommasUntilClose(_, _, _)
CommasUntilClose(ts, j, depth) ==
    IF j > Len(ts) THEN 0
    ELSE IF ts[j].type = "right parentheses"
    THEN (IF depth = 0 THEN 0 ELSE CommasUntilClose(ts, j + 1, depth - 1))
    ELSE IF ts[j].type = "left parentheses" THEN CommasUntilClose(ts, j + 1, depth + 1)
    ELSE (IF ts[j].type = "comma" /\ depth = 0 THEN 1 ELSE 0)
         + CommasUntilClose(ts, j + 1, depth)

ArgumentsWritten(ts, n) ==
    IF n + 1 <= Len(ts) /\ ts[n + 1].type = "right parentheses" THEN 0
    ELSE 1 + CommasUntilClose(ts, n + 1, 0)

\* The number of parameters written in the header `fun name ( ... )`.
HeaderOf(ts, name) ==
    CHOOSE j \in 2..Len(ts) :
        /\ ts[j].type = "identifier" /\ ts[j].value = name
        /\ ts[j - 1].type = "keyword" /\ ts[j - 1].value = W_fun

\* The declared arity of a visible function: that of the built-in of the
\* name, else the parameter count of its declaration.
DeclaredArity(ts, name) ==
    IF \E k \in 1..Len(builtInFunctions) : builtInFunctions[k].name = name
    THEN (CHOOSE b \in {builtInFunctions[k] : k \in 1..Len(builtInFunctions)} :
             b.name = name).parameterCount
    ELSE ArgumentsWritten(ts, HeaderOf(ts, name) + 1)

\* C9: a call of a visible function is accepted iff the number of arguments
\* written equals the declared arity; otherwise it is the TokenError
\* 'incorrect number of arguments' with the arity expected and the number
\* of arguments written as received.
C9_CallArity ==
    \A e \in Events("call") :
        e.outcome # "undefined" =>
        LET n == DeclaredArity(tokens, e.token.value)
            m == ArgumentsWritten(tokens, IndexOf(e.token) + 1)
        IN  /\ (e.outcome = "accepted") <=> (m = n)
            /\ (e.outcome # "accepted") =>
                  /\ parser.err.kind = "TokenError"
                  /\ parser.err.token = e.token
                  /\ parser.err.message.text = "Incorrect number of arguments"
                  /\ parser.err.message.expected = n
                  /\ parser.err.message.received = m

\* Whether an until keyword stands directly in the braces that open at token
\* j - 1 (depth 0), before their closing brace.
RECURSIVE UntilBeforeClose(_, _, _)
UntilBeforeClose(ts, j, depth) ==
    IF j > Len(ts) THEN FALSE
    ELSE IF ts[j].type = "right brace"
    THEN (IF depth = 0 THEN FALSE ELSE UntilBeforeClose(ts, j + 1, depth - 1))
    ELSE IF ts[j].type = "left brace" THEN UntilBeforeClose(ts, j + 1, depth + 1)
    ELSE \/ (depth = 0 /\ ts[j].type = "keyword" /\ ts[j].value = W_until)
         \/ UntilBeforeClose(ts, j + 1, depth)

\* n being the index of a loop keyword, followed by its opening brace
DirectUntil(ts, n) == UntilBeforeClose(ts, n + 2, 0)

LoopKeywords(ts) == {n \in 1..Len(ts) : IsKeyword(ts[n], W_loop)}

RECURSIVE ClosingBrace(_, _, _)
ClosingBrace(ts, j, depth) ==
    IF j > Len(ts) THEN Len(ts) + 1
    ELSE IF ts[j].type = "right brace"
    THEN (IF depth = 0 THEN j ELSE ClosingBrace(ts, j + 1, depth - 1))
    ELSE IF ts[j].type = "left brace" THEN ClosingBrace(ts, j + 1, depth + 1)
    ELSE ClosingBrace(ts, j + 1, depth)

InsideLoop(ts, k, n) == n + 1 < k /\ k < ClosingBrace(ts, n + 2, 0)

C23_UntilFlagOnlyOnLoops ==
    \A k \in 1..Len(parser.scopes) :
        parser.scopes[k].hasUntil => parser.scopes[k].type = "loop"

\* The program is a list of function declarations with empty bodies, none
\* of which collides with a built-in or an earlier function: the lines are
\* alternately a header `fun name ( ... ) {` and a closing brace.
WellFormedFunctions(ts) ==
    /\ ts # <<>>
    /\ ts[Len(ts)].line % 2 = 1
    /\ \A k \in 1..Len(ts) :
          IF ts[k].line % 2 = 0
          THEN IsKeyword(FirstOfLine(ts, k), W_fun)
          ELSE ts[k].type \in {"right brace", "newline"}
    /\ Collisions(ts) = {}

RECURSIVE FunctionCount(_)
FunctionCount(node) ==
    IF node = NoNode THEN 0 ELSE 1 + FunctionCount(node.next)

\* C24: the parse of n >= 1 well-formed function declarations returns a
\* program whose function list has n entries, with the token list empty;
\* and no parse returns while tokens remain.
C24_AllFunctionsParsed ==
    /\ (pc = "done" /\ WellFormedFunctions(tokens)) =>
          /\ ~Failed(parser)
          /\ parser.tokens = <<>>
          /\ FunctionCount(AST.funList) = Cardinality(Headers(tokens))
    /\ (pc = "done" /\ ~Failed(parser)) => parser.tokens = <<>>

\* The case of C24 that holds: exactly two declarations.
C24_TwoFunctions ==
    (pc = "done" /\ WellFormedFunctions(tokens) /\ Cardinality(Headers(tokens)) = 2) =>
        /\ ~Failed(parser)
        /\ parser.tokens = <<>>
        /\ FunctionCount(AST.funList) = 2

RECURSIVE StatementTypes(_)
StatementTypes(list) ==
    IF list = NoNode THEN <<>>
    ELSE <<list.statement.type>> \o StatementTypes(list.next)

\* The indices of the return keywords that stand first on a line.
ReturnKeywords(ts) ==
    {k \in 1..Len(ts) : IsKeyword(ts[k], W_return) /\ FirstOfLine(ts, k) = ts[k]}

\* C25: a function whose only statement is `return` or `return <expr>` is
\* parsed: the statement list of its body is one return-statement node,
\* which carries an expression iff one is written, and the keyword is no
\* longer in the token list.
C25_ReturnAccepted ==
    \A k \in ReturnKeywords(tokens) :
        (pc = "done" /\ Consumed(k - 1)) =>
            /\ ~Failed(parser)
            /\ Consumed(k)
            /\ StatementTypes(AST.funList.body.statementList) = <<"return statement">>
            /\ (AST.funList.body.statementList.statement.expression = NoNode)
                 <=> (tokens[k + 1].type = "newline")

\* The indices of the - tokens that stand after an operand.
Subtractions(ts) ==
    {k \in 2..Len(ts) :
        ts[k].value = <<"-">> /\ ts[k - 1].type \in {"integer", "identifier"}}

\* C26: an expression statement `a - b` or `a + b - c` is parsed into a
\* binary-expression node of type integer whose operator is the - token and
\* whose left operand is a, or the binary expression a + b.
C26_SubtractionIsAdditive ==
    \A k \in Subtractions(tokens) :
        pc = "done" =>
            /\ ~Failed(parser)
            /\ AST.funList.body.statementList.statement.expression.type
                 = "binary expression"
            /\ AST.funList.body.statementList.statement.expression.operation = tokens[k]
            /\ AST.funList.body.statementList.statement.expression.returnType = "integer"
            /\ (tokens[k - 2].type = "additive") =>
                 AST.funList.body.statementList.statement.expression.left.operation
                   = tokens[k - 2]

\* The indices of the else keywords that stand first on a line.
ElseKeywords(ts) ==
    {k \in 1..Len(ts) : IsKeyword(ts[k], W_else) /\ FirstOfLine(ts, k) = ts[k]}

\* C27: an if statement followed by `else {` or `else if` is parsed with
\* its else part: the parse does not fail, the if node carries an else
\* body, the brace of `else {` opened a scope of type else on the scope
\* that enclosed the if, and the statement after the construct is the next
\* statement of the enclosing list.
C27_ElseAccepted ==
    \A k \in ElseKeywords(tokens) :
        (pc = "done" /\ Consumed(k - 1)) =>
            /\ ~Failed(parser)
            /\ StatementTypes(AST.funList.body.statementList)
                 = <<"if statement", "expression statement">>
            /\ AST.funList.body.statementList.statement.elseBody # NoNode
            /\ tokens[k + 1].type = "left brace" =>
                 \E e \in Events("brace") :
                     e.token = tokens[k + 1] /\ e.chain = <<"global", "function", "else">>

\* The var keywords that open a line, and the names the var lines above
\* the first function declare, in source order.
VarKeywords(ts) ==
    {k \in 1..Len(ts) : IsKeyword(ts[k], W_var) /\ FirstOfLine(ts, k) = ts[k]}

ProgramLevel(ts, k) == \A m \in 1..k : ~IsKeyword(ts[m], W_fun)

RECURSIVE ProgramVariables(_, _)
ProgramVariables(ts, n) ==
    IF n = 0 THEN <<>>
    ELSE IF /\ ts[n].type = "identifier"
            /\ IsKeyword(FirstOfLine(ts, n), W_var)
            /\ ProgramLevel(ts, n)
    THEN Append(ProgramVariables(ts, n - 1), ts[n].value)
    ELSE ProgramVariables(ts, n - 1)

NoDuplicateNames(ts) == DuplicateDeclarations(ts) = {} /\ DuplicateParameters(ts) = {}

\* C28: in a program whose var lines declare distinct names, no parse
\* fails at the var keyword of a var line, and once the first function is
\* reached the global scope holds the names of all the var lines above it,
\* in source order.
C28_EveryVarLineDeclared ==
    (pc = "done" /\ NoDuplicateNames(tokens)) =>
        /\ ~(Failed(parser) /\ parser.err.kind = "TokenError"
             /\ \E k \in VarKeywords(tokens) : parser.err.token = tokens[k])
        /\ (\E k \in 1..Len(tokens) : IsKeyword(tokens[k], W_fun) /\ parser.scopes # <<>>) =>
              [i \in 1..Len(parser.scopes[1].variables) |->
                  parser.scopes[1].variables[i].name]
                = ProgramVariables(tokens, Len(tokens))

\* The case of C28 that holds: no var line directly follows another.
C28_SingleVarLines ==
    (/\ pc = "done" /\ NoDuplicateNames(tokens)
     /\ \A k \in VarKeywords(tokens) : k > 1 =>
           ~IsKeyword(FirstOfLine(tokens, k - 1), W_var)) =>
        /\ ~(Failed(parser) /\ parser.err.kind = "TokenError"
             /\ \E k \in VarKeywords(tokens) : parser.err.token = tokens[k])
        /\ (\E k \in 1..Len(tokens) : IsKeyword(tokens[k], W_fun) /\ parser.scopes # <<>>) =>
              [i \in 1..Len(parser.scopes[1].variables) |->
                  parser.scopes[1].variables[i].name]
                = ProgramVariables(tokens, Len(tokens))

\* The operator of an accepted binary expression carries one warning and
\* nothing else if one of its operands is an address, and no diagnostic if
\* none is.
WarnedIffAddress(e) ==
    IF "address" \in {LeftType(tokens, IndexOf(e.token)), RightType(tokens, IndexOf(e.token))}
    THEN /\ Cardinality(DiagnosticsAt(e.token)) = 1
         /\ \A k \in DiagnosticsAt(e.token) : parser.diagnostics[k].severity = "Warning"
    ELSE DiagnosticsAt(e.token) = {}

\* C29: at every operator level, an accepted binary operator with an
\* operand of type address has exactly one warning at the operator token,
\* and one without such an operand has none.
C29_WarningAtEveryLevel ==
    \A e \in Events("binary") : e.outcome = "accepted" => WarnedIffAddress(e)

\* C29 holds of the levels other than comparison.
C29_OtherLevels ==
    \A e \in Events("binary") :
        (e.outcome = "accepted" /\ e.token.type # "comparison") => WarnedIffAddress(e)

\* ------------------------------------------ unrecognized tokens (tokenize)
\* A character with which a token of another type than unrecognized can
\* begin when it stands alone.
Recognizable(c) ==
    \E t \in 1..Len(tokenTypes) :
        tokenTypes[t].id # "UNRECOGNIZED" /\ RegexLen(tokenTypes[t].id, <<c>>) > 0

\* C30: an unrecognized token holds no character that another rule
\* matches: in `~}` the brace is a token of its own, in `~i` the identifier.
C30_UnrecognizedAbsorbsNothing ==
    \A k \in 1..Len(lex.tokens) :
        lex.tokens[k].type = "unrecognized" =>
            \A i \in 1..Len(lex.tokens[k].value) : ~Recognizable(lex.tokens[k].value[i])

\* The part of C30 that holds: an unrecognized token begins with a
\* character that starts no other token.
C30_UnrecognizedFirstCharacter ==
    \A k \in 1..Len(lex.tokens) :
        lex.tokens[k].type = "unrecognized" => ~Recognizable(lex.tokens[k].value[1])

\* ------------------------------------- properties of refreshDiagnostics
\* C14: refreshDiagnostics on "fun init() {\nvar x\nx: 5\nreturn\n}" ends with
\* the program node of one function init whose var list holds x and whose
\* statements are an assignment and a return, and with no diagnostic.
C14_Scenario ==
    (code = ScenarioSource /\ pc = "done") =>
        /\ ~Failed(parser)
        /\ parser.diagnostics = <<>>
        /\ AST.type = "program"
        /\ AST.funList.name = W_init
        /\ AST.funList.next = NoNode
        /\ IdListVariables(AST.funList.body.varList.idList)
             = <<[name |-> <<"x">>, token |-> tokens[8], type |-> "any"]>>
        /\ StatementTypes(AST.funList.body.statementList)
             = <<"assignment", "return statement">>

\* The diagnostics the parser appended: those after the reports of the
\* unrecognized tokens.
ReportedBeforeParse == Len(ReportUnrecognized(ParserStart(tokens), tokens).diagnostics)

ParserDiagnostics(st) ==
    SubSeq(st.diagnostics, ReportedBeforeParse + 1, Len(st.diagnostics))

Advisory(ds) == \A k \in 1..Len(ds) : ds[k].severity # "Error"

\* C15: when refreshDiagnostics ends, either parse returned the program node
\* and the parser left only advisory diagnostics, or the parse failed and
\* the catch clause appended, after the advisory diagnostics already in the
\* sink, exactly one error diagnostic spanning the offending token.
C15_AstOrOneFatalDiagnostic ==
    /\ [](pc = "done" /\ ~Failed(parser) =>
            AST.type = "program" /\ Advisory(ParserDiagnostics(parser)))
    /\ [][pc = "catch" =>
            /\ Advisory(ParserDiagnostics(parser))
            /\ parser.err.kind = "TokenError"
            /\ parser'.diagnostics
                 = Append(parser.diagnostics,
                     [startLine |-> parser.err.token.line,
                      startColumn |-> parser.err.token.column,
                      endLine |-> parser.err.token.line,
                      endColumn |-> parser.err.token.column
                                      + Len(parser.err.token.value),
                      message |-> parser.err.message,
                      severity |-> "Error"])]_vars

\* C16: a parse that fails when fewer than two tokens are left (a read of
\* tokens[0] or tokens[1] past the end of the list) fails with a TokenError
\* that carries one of the tokens of the text and a message.
C16_EndOfInputIsTokenError ==
    (Failed(parser) /\ Len(parser.tokens) < 2) =>
        /\ parser.err.kind = "TokenError"
        /\ \E k \in 1..Len(tokens) : parser.err.token = tokens[k]
        /\ "text" \in DOMAIN parser.err.message

\* ------------------------------------------ properties of the diagnostics
\* The sink the report calls made so far must have produced: one diagnostic
\* for the first call of each token, spanning the token, in call order.
RECURSIVE ExpectedSink(_)
ExpectedSink(calls) ==
    IF calls = <<>> THEN <<>>
    ELSE IF \E i \in 1..(Len(calls) - 1) : calls[i].token = calls[Len(calls)].token
    THEN ExpectedSink(SubSeq(calls, 1, Len(calls) - 1))
    ELSE Append(ExpectedSink(SubSeq(calls, 1, Len(calls) - 1)),
                [startLine |-> calls[Len(calls)].token.line,
                 startColumn |-> calls[Len(calls)].token.column,
                 endLine |-> calls[Len(calls)].token.line,
                 endColumn |-> calls[Len(calls)].token.column
                               + Len(calls[Len(calls)].token.value),
                 message |-> calls[Len(calls)].message,
                 severity |-> calls[Len(calls)].severity])

\* C19: after any sequence of report calls the sink holds one diagnostic
\* for each reported token, that of its first report, spanning (line,
\* column) to (line, column + length of the text); the later reports of a
\* token left the sink unchanged whatever their message or severity.
C19_OneDiagnosticPerToken ==
    parser.diagnostics = ExpectedSink(parser.log)

\* C19 holds of the TypeScript module.
C19_SourceModule ==
    pc = "src/src/diagnostics.ts" =>
        /\ parser.diagnostics = ExpectedSink(parser.log)
        /\ parser.flagged = {parser.log[k].token : k \in 1..Len(parser.log)}
====
